---------------------------- MODULE Spec2Model ----------------------------
(***************************************************************************)
(* MOVCO quote API (src/api.py): the quote-estimation functions.           *)
(*                                                                         *)
(* Numbers.  The source computes in binary floating point; the model       *)
(* computes the same expressions exactly, on scaled integers:              *)
(*   money                     pence            (1/100 of a pound)         *)
(*   volumes (m3, ft3), miles  hundredths                                  *)
(*   factors 0.70, 1.40, 1.15  percent                                     *)
(* Intermediate values that are finer than a hundredth are kept as an      *)
(* integer numerator over the denominator stated next to them.             *)
(* round(x, 2) and round(x) are PyRound below: the nearest value, and at   *)
(* an exact decimal half either neighbour, because there the error of the  *)
(* binary float that the source holds, not the decimal value, decides.     *)
(* A function that rounds is therefore the set of its possible results.    *)
(***************************************************************************)
EXTENDS Integers, Sequences, FiniteSets, TLC

VARIABLES
    pc,                 \* position of the call under evaluation
    ml_price,           \* analyze_quote: ml_price          (1/10000 pound)
    rule_price,         \* analyze_quote: rule_price        (pence)
    estimate,           \* analyze_quote: estimate          (pence)
    pricing_method,     \* analyze_quote: pricing_method
    total_volume_m3,    \* analyze_quote: total_volume_m3   (1/100 m3)
    distance_miles,     \* analyze_quote: distance_miles    (1/100 mile)
    van_count,          \* analyze_quote: van_count
    movers,             \* analyze_quote: movers
    weekend,            \* analyze_quote: weekend
    stairs_flights,     \* calculate_rule_based_price: stairs_flights
    rule_price_info,    \* analyze_quote: rule_price_info
    van_info,           \* analyze_quote: van_info
    response_text,      \* analyze_room_with_claude: response_text
    lines,              \* analyze_room_with_claude: the lines the loop has yet to read
    items,              \* analyze_room_with_claude: items
    total_volume_ft3,   \* analyze_room_with_claude: total_volume_ft3 (1/100 ft3)
    result,             \* analyze_room_with_claude: the returned dict
    all_results,        \* analyze_quote: all_results
    quote_items,        \* analyze_quote: items
    quote_volume_ft3,   \* analyze_quote: total_volume_ft3 (1/100 ft3)
    item_label,         \* estimate_item_volume: item_name
    item_unit_volume,   \* estimate_item_volume: the returned volume (1/100 ft3)
    distance_km,        \* analyze_quote: distance_km (1/10 km)
    now,                \* datetime.now(): [weekday, month]
    features,           \* analyze_quote: features
    maps_key,           \* GOOGLE_MAPS_API_KEY is set
    maps_reply,         \* get_google_maps_distance: what requests.get brings
    distance_info,      \* analyze_quote: distance_info
    photos,             \* analyze_quote: per photo URL, what the fetch and the vision call bring
    vision_client,      \* client is set (ANTHROPIC_API_KEY)
    today,              \* is_weekend_today: datetime.now()
    prediction,         \* analyze_quote: what model.predict does
    total_area_m2,      \* analyze_quote: total_area_m2 (1/100 m2)
    quote,              \* analyze_quote: the QuoteResponse returned
    calls,              \* one frame of analyze_quote per request being served
    model,              \* the price model, module level (joblib.load)
    external_calls      \* the requests sent to the Maps, image and vision services, in order

hybridVars == <<ml_price, rule_price, estimate, pricing_method>>

ruleVars == <<total_volume_m3, distance_miles, van_count, movers, weekend,
              stairs_flights, rule_price_info>>

vanVars == <<van_info>>

parseVars == <<response_text, lines, items, total_volume_ft3, result>>

requestVars == <<all_results, quote_items, quote_volume_ft3>>

estimateVars == <<item_label, item_unit_volume>>

featureVars == <<distance_km, now, features>>

distanceVars == <<maps_key, maps_reply, distance_info>>

quoteVars == <<photos, vision_client, today, prediction, total_area_m2, quote>>

concurrentVars == <<calls, model>>

callVars == <<external_calls>>

vars == <<pc, hybridVars, ruleVars, vanVars, parseVars, requestVars, estimateVars, featureVars, distanceVars, quoteVars, concurrentVars, callVars>>

(***************************************************************************)
(* Arithmetic helpers                                                      *)
(***************************************************************************)
Max(a, b) == IF a >= b THEN a ELSE b

Min(a, b) == IF a <= b THEN a ELSE b

\* Python's round() of n/d, d > 0: the possible results.
PyRound(n, d) ==
    LET q == n \div d
        r == n % d
    IN  IF 2 * r < d THEN {q}
        ELSE IF 2 * r > d THEN {q + 1}
        ELSE {q, q + 1}

\* math.ceil(n/d), d > 0
CeilDiv(n, d) == -((-n) \div d)

\* p is x/d rounded to the nearest integer (used to state the claims)
IsNearest(p, x, d) == 2 * (d * p - x) <= d /\ 2 * (x - d * p) <= d

(***************************************************************************)
(* Constants of src/api.py                                                 *)
(***************************************************************************)
ML_LOWER_BOUND_FACTOR == 70      \* 0.70, percent
ML_UPPER_BOUND_FACTOR == 140     \* 1.40, percent
LUTON_VAN_CAPACITY_M3 == 3500    \* 35.0 m3, hundredths
SWB_VAN_CAPACITY_M3 == 1100      \* 11.0 m3, hundredths
LWB_VAN_CAPACITY_M3 == 1800      \* 18.0 m3, hundredths
MIN_QUOTE == 20000               \* 200.0 pounds, pence
BASE_RATE == 25000               \* 250.0 pounds, pence
RATE_PER_M3 == 3500              \* 35.0 pounds per m3, pence
RATE_PER_MILE == 200             \* 2.00 pounds per mile, pence
RATE_PER_VAN_EXTRA == 15000      \* 150.0 pounds, pence
RATE_PER_MOVER_HOUR == 2500      \* 25.0 pounds per mover hour, pence
MIN_HOURS_ESTIMATE == 2          \* 2.0 hours
WEEKEND_PREMIUM == 115           \* 1.15, percent
STAIRS_SURCHARGE_PER_FLIGHT == 5000   \* 50.0 pounds, pence

(***************************************************************************)
(* Bounds of the model                                                     *)
(***************************************************************************)
MaxRuleK == 16      \* rule prices  22.22 * k pounds, k in 1..MaxRuleK
MaxMlK == 16        \* predictions  33.3333 * j pounds, j in -1..MaxMlK
MaxPriceVolK == 5   \* priced volumes    7.77 * k m3, k in 0..MaxPriceVolK
MaxDistK == 4       \* priced distances  15.01 * j miles, j in 0..MaxDistK
MaxVans == 3        \* priced van counts 1..MaxVans
MaxMovers == 3      \* priced crews      0..MaxMovers
MaxStairs == 1      \* priced flights of stairs 0..MaxStairs
MaxLoadK == 90      \* loads  1.25 * k m3, k in -2..MaxLoadK
MaxCrewVans == 5    \* van counts given to calculate_movers, 0..MaxCrewVans
MaxLines == 2       \* lines of a vision response, 0..MaxLines
MaxPhotos == 2      \* per-photo results given to the aggregator, 0..MaxPhotos
MaxPhotoItems == 2  \* items of one per-photo result, 0..MaxPhotoItems
MaxRoomVolK == 12   \* volumes given to the feature builder, 5 m3 * (0..MaxRoomVolK)
MaxKmK == 3         \* distances given to the feature builder, 5.3 km * (0..MaxKmK)
MaxMetersK == 3     \* route lengths of a maps reply, 12345 m * (0..MaxMetersK)
MaxRequests == 2    \* requests served at the same time
MaxQuotePhotos == 2 \* photo URLs of a request, 0..MaxQuotePhotos

(***************************************************************************)
(* The variables of a function that is not under evaluation                *)
(***************************************************************************)
HybridIdle ==
    /\ ml_price = 0
    /\ rule_price = 0
    /\ estimate = 0
    /\ pricing_method = "none"

NoInfo == [total |-> 0]

NoVan == [van_count |-> 0]

RuleIdle ==
    /\ distance_miles = 0
    /\ weekend = FALSE
    /\ stairs_flights = 0
    /\ rule_price_info = NoInfo

VanIdle ==
    /\ van_info = NoVan

NoResult == [items |-> <<>>]

ParseIdle ==
    /\ response_text = <<>>
    /\ lines = <<>>
    /\ items = <<>>
    /\ total_volume_ft3 = 0
    /\ result = NoResult

\* before joblib.load has returned
NoModel == [loaded |-> FALSE]

RequestIdle ==
    /\ all_results = <<>>
    /\ quote_items = <<>>
    /\ quote_volume_ft3 = 0

CallsIdle ==
    /\ external_calls = <<>>

ConcurrentIdle ==
    /\ calls = <<>>
    /\ model = NoModel

NoDate == [weekday |-> 0, month |-> 1]

NoPrediction == [raises |-> FALSE, value |-> 0]

NoQuote == [pricing_method |-> "none"]

QuoteIdle ==
    /\ photos = <<>>
    /\ vision_client = FALSE
    /\ today = NoDate
    /\ prediction = NoPrediction
    /\ total_area_m2 = 0
    /\ quote = NoQuote

NoReply == [http |-> "none"]

NoDistance == [source |-> "none"]

DistanceIdle ==
    /\ maps_key = FALSE
    /\ maps_reply = NoReply
    /\ distance_info = NoDistance

FeatureIdle ==
    /\ distance_km = 0
    /\ now = NoDate
    /\ features = <<>>

EstimateIdle ==
    /\ item_label = <<>>
    /\ item_unit_volume = 0

(***************************************************************************)
(* Text.  A string is a sequence of one-character strings.                 *)
(***************************************************************************)
UpperCase == <<"A", "B", "C", "D", "E", "F", "G", "H", "I", "J", "K", "L", "M", "N", "O", "P", "Q", "R", "S", "T", "U", "V", "W", "X", "Y", "Z">>
LowerCase == <<"a", "b", "c", "d", "e", "f", "g", "h", "i", "j", "k", "l", "m", "n", "o", "p", "q", "r", "s", "t", "u", "v", "w", "x", "y", "z">>
Digits == <<"0", "1", "2", "3", "4", "5", "6", "7", "8", "9">>
\* the characters str.strip() removes (those that occur in the model)
WhiteSpace == {" ", "\t", "\n", "\r", "\f"}

\* the position of c in the sequence s, 0 when absent
IndexIn(s, c) ==
    IF \E i \in 1..Len(s) : s[i] = c
    THEN CHOOSE i \in 1..Len(s) : s[i] = c /\ \A j \in 1..(i - 1) : s[j] # c
    ELSE 0

\* str.lower(), on ASCII letters
LowerChar(c) ==
    IF IndexIn(UpperCase, c) > 0 THEN LowerCase[IndexIn(UpperCase, c)] ELSE c

ToLower(s) == [i \in 1..Len(s) |-> LowerChar(s[i])]

\* str.strip()
Strip(s) ==
    LET keep == {i \in 1..Len(s) : s[i] \notin WhiteSpace}
    IN  IF keep = {} THEN <<>>
        ELSE LET first == CHOOSE i \in keep : \A j \in keep : i <= j
                 last == CHOOSE i \in keep : \A j \in keep : j <= i
             IN  SubSeq(s, first, last)

\* needle in hay
Contains(hay, needle) ==
    \E i \in 0..(Len(hay) - Len(needle)) : SubSeq(hay, i + 1, i + Len(needle)) = needle

\* variant: str.find(c) + 1, the first position
RFind_First(s, c) == IndexIn(s, c)

\* str.rfind(c) + 1: the last position of c in s, 0 when absent
RFind(s, c) ==
    IF \E i \in 1..Len(s) : s[i] = c
    THEN CHOOSE i \in 1..Len(s) : s[i] = c /\ \A j \in (i + 1)..Len(s) : s[j] # c
    ELSE 0

\* str.split(sep), sep one character
RECURSIVE Split(_, _)
Split(s, sep) ==
    LET i == IndexIn(s, sep)
    IN  IF i = 0 THEN <<s>>
        ELSE <<SubSeq(s, 1, i - 1)>> \o Split(SubSeq(s, i + 1, Len(s)), sep)

\* the value of a sequence of decimal digits
RECURSIVE DigitsValue(_)
DigitsValue(s) ==
    IF s = <<>> THEN 0
    ELSE 10 * DigitsValue(SubSeq(s, 1, Len(s) - 1)) + (IndexIn(Digits, s[Len(s)]) - 1)

\* int(s): ok is FALSE where int raises ValueError.  An optional sign, then
\* digits, single underscores allowed between digits; blanks around are ignored.
ParseInt(str) ==
    LET s == Strip(str)
        signed == Len(s) > 0 /\ s[1] \in {"-", "+"}
        body == IF signed THEN SubSeq(s, 2, Len(s)) ELSE s
        wellFormed ==
            /\ Len(body) > 0
            /\ \A i \in 1..Len(body) : IndexIn(Digits, body[i]) > 0 \/ body[i] = "_"
            /\ body[1] # "_" /\ body[Len(body)] # "_"
            /\ \A i \in 1..(Len(body) - 1) : ~(body[i] = "_" /\ body[i + 1] = "_")
        digits == SelectSeq(body, LAMBDA c : c # "_")
        magnitude == DigitsValue(digits)
    IN  IF wellFormed
        THEN [ok |-> TRUE, value |-> IF signed /\ s[1] = "-" THEN -magnitude ELSE magnitude]
        ELSE [ok |-> FALSE, value |-> 0]

(***************************************************************************)
(* FURNITURE_VOLUMES, in insertion order; volumes in hundredths of a ft3   *)
(***************************************************************************)
FURNITURE_VOLUMES == <<
    [key |-> <<"s", "o", "f", "a">>,
     volume |-> 5000],
    [key |-> <<"3", "-", "s", "e", "a", "t", "e", "r", " ", "s", "o", "f", "a">>,
     volume |-> 6000],
    [key |-> <<"2", "-", "s", "e", "a", "t", "e", "r", " ", "s", "o", "f", "a">>,
     volume |-> 4500],
    [key |-> <<"l", "o", "v", "e", "s", "e", "a", "t">>,
     volume |-> 4000],
    [key |-> <<"s", "e", "c", "t", "i", "o", "n", "a", "l", " ", "s", "o", "f", "a">>,
     volume |-> 8000],
    [key |-> <<"a", "r", "m", "c", "h", "a", "i", "r">>,
     volume |-> 3000],
    [key |-> <<"r", "e", "c", "l", "i", "n", "e", "r">>,
     volume |-> 3500],
    [key |-> <<"b", "e", "d">>,
     volume |-> 7000],
    [key |-> <<"q", "u", "e", "e", "n", " ", "b", "e", "d">>,
     volume |-> 7000],
    [key |-> <<"k", "i", "n", "g", " ", "b", "e", "d">>,
     volume |-> 8500],
    [key |-> <<"d", "o", "u", "b", "l", "e", " ", "b", "e", "d">>,
     volume |-> 6500],
    [key |-> <<"s", "i", "n", "g", "l", "e", " ", "b", "e", "d">>,
     volume |-> 5000],
    [key |-> <<"b", "u", "n", "k", " ", "b", "e", "d">>,
     volume |-> 8000],
    [key |-> <<"d", "i", "n", "i", "n", "g", " ", "t", "a", "b", "l", "e">>,
     volume |-> 4500],
    [key |-> <<"c", "o", "f", "f", "e", "e", " ", "t", "a", "b", "l", "e">>,
     volume |-> 1500],
    [key |-> <<"s", "i", "d", "e", " ", "t", "a", "b", "l", "e">>,
     volume |-> 800],
    [key |-> <<"e", "n", "d", " ", "t", "a", "b", "l", "e">>,
     volume |-> 800],
    [key |-> <<"c", "o", "n", "s", "o", "l", "e", " ", "t", "a", "b", "l", "e">>,
     volume |-> 2000],
    [key |-> <<"d", "e", "s", "k">>,
     volume |-> 3500],
    [key |-> <<"o", "f", "f", "i", "c", "e", " ", "d", "e", "s", "k">>,
     volume |-> 4000],
    [key |-> <<"d", "r", "e", "s", "s", "e", "r">>,
     volume |-> 4500],
    [key |-> <<"c", "h", "e", "s", "t", " ", "o", "f", " ", "d", "r", "a", "w", "e", "r", "s">>,
     volume |-> 4000],
    [key |-> <<"w", "a", "r", "d", "r", "o", "b", "e">>,
     volume |-> 6500],
    [key |-> <<"a", "r", "m", "o", "i", "r", "e">>,
     volume |-> 7000],
    [key |-> <<"b", "o", "o", "k", "s", "h", "e", "l", "f">>,
     volume |-> 3500],
    [key |-> <<"b", "o", "o", "k", "c", "a", "s", "e">>,
     volume |-> 4000],
    [key |-> <<"t", "v", " ", "s", "t", "a", "n", "d">>,
     volume |-> 2500],
    [key |-> <<"e", "n", "t", "e", "r", "t", "a", "i", "n", "m", "e", "n", "t", " ", "c", "e", "n", "t", "e", "r">>,
     volume |-> 5000],
    [key |-> <<"n", "i", "g", "h", "t", "s", "t", "a", "n", "d">>,
     volume |-> 1000],
    [key |-> <<"b", "e", "d", "s", "i", "d", "e", " ", "t", "a", "b", "l", "e">>,
     volume |-> 1000],
    [key |-> <<"d", "i", "n", "i", "n", "g", " ", "c", "h", "a", "i", "r">>,
     volume |-> 800],
    [key |-> <<"o", "f", "f", "i", "c", "e", " ", "c", "h", "a", "i", "r">>,
     volume |-> 1200],
    [key |-> <<"b", "a", "r", " ", "s", "t", "o", "o", "l">>,
     volume |-> 600],
    [key |-> <<"o", "t", "t", "o", "m", "a", "n">>,
     volume |-> 1200],
    [key |-> <<"c", "a", "b", "i", "n", "e", "t">>,
     volume |-> 3000],
    [key |-> <<"f", "i", "l", "i", "n", "g", " ", "c", "a", "b", "i", "n", "e", "t">>,
     volume |-> 1500],
    [key |-> <<"c", "h", "i", "n", "a", " ", "c", "a", "b", "i", "n", "e", "t">>,
     volume |-> 4500],
    [key |-> <<"s", "i", "d", "e", "b", "o", "a", "r", "d">>,
     volume |-> 4000],
    [key |-> <<"c", "r", "e", "d", "e", "n", "z", "a">>,
     volume |-> 3500],
    [key |-> <<"b", "e", "n", "c", "h">>,
     volume |-> 1500],
    [key |-> <<"f", "o", "o", "t", "s", "t", "o", "o", "l">>,
     volume |-> 500],
    [key |-> <<"m", "i", "r", "r", "o", "r">>,
     volume |-> 500],
    [key |-> <<"l", "a", "r", "g", "e", " ", "m", "i", "r", "r", "o", "r">>,
     volume |-> 800],
    [key |-> <<"l", "a", "m", "p">>,
     volume |-> 300],
    [key |-> <<"f", "l", "o", "o", "r", " ", "l", "a", "m", "p">>,
     volume |-> 400],
    [key |-> <<"m", "a", "t", "t", "r", "e", "s", "s">>,
     volume |-> 3000],
    [key |-> <<"b", "o", "x", " ", "s", "p", "r", "i", "n", "g">>,
     volume |-> 3000],
    [key |-> <<"r", "u", "g">>,
     volume |-> 500],
    [key |-> <<"l", "a", "r", "g", "e", " ", "r", "u", "g">>,
     volume |-> 1000],
    [key |-> <<"t", "v">>,
     volume |-> 800],
    [key |-> <<"l", "a", "r", "g", "e", " ", "t", "v">>,
     volume |-> 1200],
    [key |-> <<"r", "e", "f", "r", "i", "g", "e", "r", "a", "t", "o", "r">>,
     volume |-> 5500],
    [key |-> <<"w", "a", "s", "h", "i", "n", "g", " ", "m", "a", "c", "h", "i", "n", "e">>,
     volume |-> 3000],
    [key |-> <<"d", "r", "y", "e", "r">>,
     volume |-> 3000],
    [key |-> <<"d", "i", "s", "h", "w", "a", "s", "h", "e", "r">>,
     volume |-> 2500],
    [key |-> <<"m", "i", "c", "r", "o", "w", "a", "v", "e">>,
     volume |-> 400],
    [key |-> <<"b", "o", "x", "e", "s">>,
     volume |-> 300],
    [key |-> <<"s", "t", "o", "r", "a", "g", "e", " ", "b", "o", "x">>,
     volume |-> 300],
    [key |-> <<"b", "i", "n">>,
     volume |-> 200],
    [key |-> <<"p", "l", "a", "n", "t">>,
     volume |-> 500],
    [key |-> <<"l", "a", "r", "g", "e", " ", "p", "l", "a", "n", "t">>,
     volume |-> 1000],
    [key |-> <<"b", "i", "c", "y", "c", "l", "e">>,
     volume |-> 1500],
    [key |-> <<"t", "r", "e", "a", "d", "m", "i", "l", "l">>,
     volume |-> 4000],
    [key |-> <<"e", "x", "e", "r", "c", "i", "s", "e", " ", "e", "q", "u", "i", "p", "m", "e", "n", "t">>,
     volume |-> 2000]
>>
\* the volume returned when nothing matches (15.0 ft3)
DEFAULT_ITEM_VOLUME == 1500

(***************************************************************************)
(* estimate_item_volume(item_name)                                         *)
(***************************************************************************)
\* variant: no exact lookup before the scan of the table
estimate_item_volume_ScanOnly(item_name) ==
    LET item_lower == Strip(ToLower(item_name))
        fuzzy == {i \in 1..Len(FURNITURE_VOLUMES) :
                     \/ Contains(item_lower, FURNITURE_VOLUMES[i].key)
                     \/ Contains(FURNITURE_VOLUMES[i].key, item_lower)}
    IN  IF fuzzy # {}
        THEN FURNITURE_VOLUMES[CHOOSE i \in fuzzy : \A j \in fuzzy : i <= j].volume
        ELSE DEFAULT_ITEM_VOLUME

estimate_item_volume(item_name) ==
    LET item_lower == Strip(ToLower(item_name))
        exact == {i \in 1..Len(FURNITURE_VOLUMES) : FURNITURE_VOLUMES[i].key = item_lower}
        fuzzy == {i \in 1..Len(FURNITURE_VOLUMES) :
                     \/ Contains(item_lower, FURNITURE_VOLUMES[i].key)
                     \/ Contains(FURNITURE_VOLUMES[i].key, item_lower)}
    IN  IF exact # {}
        THEN FURNITURE_VOLUMES[CHOOSE i \in exact : TRUE].volume
        ELSE IF fuzzy # {}
        THEN FURNITURE_VOLUMES[CHOOSE i \in fuzzy : \A j \in fuzzy : i <= j].volume
        ELSE DEFAULT_ITEM_VOLUME

(***************************************************************************)
(* calculate_van_count(total_volume_m3), volume in hundredths of a m3      *)
(***************************************************************************)
\* Variant: the number of Luton vans is rounded down.
calculate_van_count_Floor(volume) ==
    IF volume <= 0
    THEN {[van_count |-> 1, van_type |-> "small",
           van_description |-> <<1, "Small Van (SWB)">>, capacity_used_pct |-> 0]}
    ELSE IF volume <= SWB_VAN_CAPACITY_M3
    THEN {[van_count |-> 1, van_type |-> "small",
           van_description |-> <<1, "Small Van (SWB, ~11 m3)">>,
           capacity_used_pct |-> pct] :
             pct \in PyRound(volume * 100, SWB_VAN_CAPACITY_M3)}
    ELSE IF volume <= LWB_VAN_CAPACITY_M3
    THEN {[van_count |-> 1, van_type |-> "medium",
           van_description |-> <<1, "Medium Van (LWB, ~18 m3)">>,
           capacity_used_pct |-> pct] :
             pct \in PyRound(volume * 100, LWB_VAN_CAPACITY_M3)}
    ELSE IF volume <= LUTON_VAN_CAPACITY_M3
    THEN {[van_count |-> 1, van_type |-> "large",
           van_description |-> <<1, "Large Van (Luton, ~35 m3)">>,
           capacity_used_pct |-> pct] :
             pct \in PyRound(volume * 100, LUTON_VAN_CAPACITY_M3)}
    ELSE LET count == volume \div LUTON_VAN_CAPACITY_M3
             total_capacity == count * LUTON_VAN_CAPACITY_M3
         IN  {[van_count |-> count, van_type |-> "large",
               van_description |->
                  <<count, IF count > 1 THEN "Large Vans (Luton, ~35 m3 each)"
                                        ELSE "Large Van (Luton, ~35 m3 each)">>,
               capacity_used_pct |-> pct] :
                 pct \in PyRound(volume * 100, total_capacity)}

\* Variant: a load between the small and the medium van takes two small vans.
calculate_van_count_TwoSmall(volume) ==
    IF volume <= 0
    THEN {[van_count |-> 1, van_type |-> "small",
           van_description |-> <<1, "Small Van (SWB)">>, capacity_used_pct |-> 0]}
    ELSE IF volume <= SWB_VAN_CAPACITY_M3
    THEN {[van_count |-> 1, van_type |-> "small",
           van_description |-> <<1, "Small Van (SWB, ~11 m3)">>,
           capacity_used_pct |-> pct] :
             pct \in PyRound(volume * 100, SWB_VAN_CAPACITY_M3)}
    ELSE IF volume <= LWB_VAN_CAPACITY_M3
    THEN {[van_count |-> 2, van_type |-> "small",
           van_description |-> <<2, "Small Vans (SWB, ~11 m3)">>,
           capacity_used_pct |-> pct] :
             pct \in PyRound(volume * 100, 2 * SWB_VAN_CAPACITY_M3)}
    ELSE IF volume <= LUTON_VAN_CAPACITY_M3
    THEN {[van_count |-> 1, van_type |-> "large",
           van_description |-> <<1, "Large Van (Luton, ~35 m3)">>,
           capacity_used_pct |-> pct] :
             pct \in PyRound(volume * 100, LUTON_VAN_CAPACITY_M3)}
    ELSE LET count == CeilDiv(volume, LUTON_VAN_CAPACITY_M3)
             total_capacity == count * LUTON_VAN_CAPACITY_M3
         IN  {[van_count |-> count, van_type |-> "large",
               van_description |->
                  <<count, IF count > 1 THEN "Large Vans (Luton, ~35 m3 each)"
                                        ELSE "Large Van (Luton, ~35 m3 each)">>,
               capacity_used_pct |-> pct] :
                 pct \in PyRound(volume * 100, total_capacity)}

\* The description is the pair (count, text after the count and the times sign).
calculate_van_count(volume) ==
    IF volume <= 0
    THEN {[van_count |-> 1, van_type |-> "small",
           van_description |-> <<1, "Small Van (SWB)">>, capacity_used_pct |-> 0]}
    ELSE IF volume <= SWB_VAN_CAPACITY_M3
    THEN {[van_count |-> 1, van_type |-> "small",
           van_description |-> <<1, "Small Van (SWB, ~11 m3)">>,
           capacity_used_pct |-> pct] :
             pct \in PyRound(volume * 100, SWB_VAN_CAPACITY_M3)}
    ELSE IF volume <= LWB_VAN_CAPACITY_M3
    THEN {[van_count |-> 1, van_type |-> "medium",
           van_description |-> <<1, "Medium Van (LWB, ~18 m3)">>,
           capacity_used_pct |-> pct] :
             pct \in PyRound(volume * 100, LWB_VAN_CAPACITY_M3)}
    ELSE IF volume <= LUTON_VAN_CAPACITY_M3
    THEN {[van_count |-> 1, van_type |-> "large",
           van_description |-> <<1, "Large Van (Luton, ~35 m3)">>,
           capacity_used_pct |-> pct] :
             pct \in PyRound(volume * 100, LUTON_VAN_CAPACITY_M3)}
    ELSE LET count == CeilDiv(volume, LUTON_VAN_CAPACITY_M3)
             total_capacity == count * LUTON_VAN_CAPACITY_M3
         IN  {[van_count |-> count, van_type |-> "large",
               van_description |->
                  <<count, IF count > 1 THEN "Large Vans (Luton, ~35 m3 each)"
                                        ELSE "Large Van (Luton, ~35 m3 each)">>,
               capacity_used_pct |-> pct] :
                 pct \in PyRound(volume * 100, total_capacity)}

(***************************************************************************)
(* calculate_movers(van_count, total_volume_m3)                            *)
(***************************************************************************)
calculate_movers(vans, volume) ==
    IF vans <= 1 THEN 2
    ELSE IF vans = 2 THEN 3
    ELSE 4

(***************************************************************************)
(* Evaluation of calculate_van_count and calculate_movers                  *)
(* (analyze_quote, step 4)                                                 *)
(***************************************************************************)
\* loads 1.25 * k m3, and each capacity limit with the hundredth above it
Loads ==
    {125 * k : k \in -2..MaxLoadK}
    \cup {c + e : c \in {SWB_VAN_CAPACITY_M3, LWB_VAN_CAPACITY_M3,
                         LUTON_VAN_CAPACITY_M3, 2 * LUTON_VAN_CAPACITY_M3}, e \in {0, 1}}

\* the call of calculate_van_count, then of calculate_movers on its result
InitVan ==
    /\ pc = "van"
    /\ total_volume_m3 \in Loads
    /\ van_count = 0
    /\ movers = 0
    /\ van_info = NoVan
    /\ RuleIdle
    /\ HybridIdle
    /\ ParseIdle
    /\ RequestIdle
    /\ EstimateIdle
    /\ FeatureIdle
    /\ DistanceIdle
    /\ QuoteIdle
    /\ ConcurrentIdle
    /\ CallsIdle

\* calculate_movers alone, on any van count
InitMovers ==
    /\ pc = "movers"
    /\ total_volume_m3 = 0
    /\ van_count \in 0..MaxCrewVans
    /\ movers = 0
    /\ van_info = NoVan
    /\ RuleIdle
    /\ HybridIdle
    /\ ParseIdle
    /\ RequestIdle
    /\ EstimateIdle
    /\ FeatureIdle
    /\ DistanceIdle
    /\ QuoteIdle
    /\ ConcurrentIdle
    /\ CallsIdle

VanCount ==
    /\ pc = "van"
    /\ van_info' \in calculate_van_count(total_volume_m3)
    /\ van_count' = van_info'.van_count
    /\ pc' = "movers"
    /\ UNCHANGED <<total_volume_m3, movers, distance_miles, weekend, stairs_flights,
                   rule_price_info, hybridVars, parseVars, requestVars, estimateVars,
                   featureVars, distanceVars, quoteVars, concurrentVars, callVars>>

Movers ==
    /\ pc = "movers"
    /\ movers' = calculate_movers(van_count, total_volume_m3)
    /\ pc' = "van_done"
    /\ UNCHANGED <<total_volume_m3, van_count, van_info, distance_miles, weekend,
                   stairs_flights, rule_price_info, hybridVars, parseVars, requestVars,
                   estimateVars, featureVars, distanceVars, quoteVars, concurrentVars,
                   callVars>>

NextVan == VanCount \/ Movers

SpecVan == (InitVan \/ InitMovers) /\ [][NextVan]_vars

(***************************************************************************)
(* Claims about calculate_van_count and calculate_movers                   *)
(***************************************************************************)
VanCounted == van_info # NoVan

\* C8: a volume v <= 0 or v <= 11 gives 1 small van, 11 < v <= 18 gives 1
\* medium van, 18 < v <= 35 gives 1 large van, and v > 35 gives ceil(v/35)
\* large vans with capacity_used_pct = round(v / (van_count*35) * 100);
\* calculate_movers returns 2 for van_count <= 1, 3 for 2 and 4 for >= 3.
C8_VansAndMovers ==
    /\ VanCounted =>
          LET v == total_volume_m3
              n == van_info.van_count
          IN  /\ (v <= 0 \/ v <= 1100) => (n = 1 /\ van_info.van_type = "small")
              /\ (1100 < v /\ v <= 1800) => (n = 1 /\ van_info.van_type = "medium")
              /\ (1800 < v /\ v <= 3500) => (n = 1 /\ van_info.van_type = "large")
              /\ (v > 3500) =>
                    /\ van_info.van_type = "large"
                    /\ (n - 1) * 3500 < v /\ v <= n * 3500
                    /\ IsNearest(van_info.capacity_used_pct, 100 * v, n * 3500)
    /\ (pc = "van_done") =>
          /\ (van_count <= 1) => movers = 2
          /\ (van_count = 2) => movers = 3
          /\ (van_count >= 3) => movers = 4

C8_Witness ==
    /\ pc = "van_done"
    /\ total_volume_m3 > 2 * 3500
    /\ van_info.van_count = 3
    /\ van_info.capacity_used_pct < 100
    /\ movers = 4

\* C9: the van count never decreases as the volume grows: for all volumes
\* v1 <= v2, van_count(v1) <= van_count(v2).
C9_VanCountMonotone ==
    VanCounted =>
        \A v1 \in Loads :
            (v1 <= total_volume_m3) =>
                \A r \in calculate_van_count(v1) : r.van_count <= van_info.van_count

C9_Witness ==
    /\ VanCounted
    /\ van_info.van_count = 3
    /\ \E v1 \in Loads :
          /\ v1 < total_volume_m3
          /\ \E r \in calculate_van_count(v1) : r.van_count = 2

(***************************************************************************)
(* estimate_job_hours(total_volume_m3, distance_miles)                     *)
(* Arguments in hundredths; hours are returned as a numerator over         *)
(* HourDen = 30000 (the common denominator of v/15, d/30 and 0.8).         *)
(***************************************************************************)
HourDen == 100 * 15 * 20

\* Variant: loading time has no one-hour minimum.
estimate_job_hours_NoLoadingMin(volume, distance) ==
    LET loading_hours == 20 * volume
        driving_hours == Max(10 * distance, HourDen \div 2)
        unloading_hours == (loading_hours * 8) \div 10
        total == loading_hours + driving_hours + unloading_hours
    IN  Max(total, MIN_HOURS_ESTIMATE * HourDen)

estimate_job_hours(volume, distance) ==
    LET loading_hours == Max(20 * volume, HourDen)
        driving_hours == Max(10 * distance, HourDen \div 2)
        unloading_hours == (loading_hours * 8) \div 10
        total == loading_hours + driving_hours + unloading_hours
    IN  Max(total, MIN_HOURS_ESTIMATE * HourDen)

(***************************************************************************)
(* calculate_rule_based_price(total_volume_m3, distance_miles, van_count,  *)
(*                            movers, is_weekend, stairs_flights)          *)
(* The local amounts are in 1/240 penny (Fine per penny): labour is a      *)
(* multiple of 1/12 penny and the weekend premium 3/20 of the subtotal.    *)
(***************************************************************************)
Fine == 12 * 20

\* Variant: the first van is charged as an extra van too.
rule_based_locals_AllVansCharged(volume, distance, vans, crew, is_weekend, flights) ==
    LET base == BASE_RATE * Fine
        volume_charge == volume * ((RATE_PER_M3 * Fine) \div 100)
        distance_charge == distance * ((RATE_PER_MILE * Fine) \div 100)
        extra_vans == Max(vans, 0)
        van_charge == extra_vans * RATE_PER_VAN_EXTRA * Fine
        job_hours == estimate_job_hours(volume, distance)
        labour_charge == crew * job_hours * ((RATE_PER_MOVER_HOUR * Fine) \div HourDen)
        stairs_charge == flights * STAIRS_SURCHARGE_PER_FLIGHT * Fine
        subtotal == base + volume_charge + distance_charge + van_charge
                    + labour_charge + stairs_charge
        weekend_extra == IF is_weekend
                         THEN (subtotal \div 100) * (WEEKEND_PREMIUM - 100)
                              + ((subtotal % 100) * (WEEKEND_PREMIUM - 100)) \div 100
                         ELSE 0
        total == subtotal + weekend_extra
    IN  [base |-> base, volume_charge |-> volume_charge,
         distance_charge |-> distance_charge, van_charge |-> van_charge,
         job_hours |-> job_hours, labour_charge |-> labour_charge,
         stairs_charge |-> stairs_charge, subtotal |-> subtotal,
         weekend_extra |-> weekend_extra, total |-> total]

\* Variant: the weekend extra is subtotal * WEEKEND_PREMIUM, so that the total
\* carries the premium on top of a second subtotal.
rule_based_locals_PremiumTwice(volume, distance, vans, crew, is_weekend, flights) ==
    LET base == BASE_RATE * Fine
        volume_charge == volume * ((RATE_PER_M3 * Fine) \div 100)
        distance_charge == distance * ((RATE_PER_MILE * Fine) \div 100)
        extra_vans == Max(vans - 1, 0)
        van_charge == extra_vans * RATE_PER_VAN_EXTRA * Fine
        job_hours == estimate_job_hours(volume, distance)
        labour_charge == crew * job_hours * ((RATE_PER_MOVER_HOUR * Fine) \div HourDen)
        stairs_charge == flights * STAIRS_SURCHARGE_PER_FLIGHT * Fine
        subtotal == base + volume_charge + distance_charge + van_charge
                    + labour_charge + stairs_charge
        weekend_extra == IF is_weekend
                         THEN (subtotal \div 100) * WEEKEND_PREMIUM
                              + ((subtotal % 100) * WEEKEND_PREMIUM) \div 100
                         ELSE 0
        total == subtotal + weekend_extra
    IN  [base |-> base, volume_charge |-> volume_charge,
         distance_charge |-> distance_charge, van_charge |-> van_charge,
         job_hours |-> job_hours, labour_charge |-> labour_charge,
         stairs_charge |-> stairs_charge, subtotal |-> subtotal,
         weekend_extra |-> weekend_extra, total |-> total]

\* the function's locals before the return statement (lines 320-352)
rule_based_locals(volume, distance, vans, crew, is_weekend, flights) ==
    LET base == BASE_RATE * Fine
        volume_charge == volume * ((RATE_PER_M3 * Fine) \div 100)
        distance_charge == distance * ((RATE_PER_MILE * Fine) \div 100)
        extra_vans == Max(vans - 1, 0)
        van_charge == extra_vans * RATE_PER_VAN_EXTRA * Fine
        job_hours == estimate_job_hours(volume, distance)
        labour_charge == crew * job_hours * ((RATE_PER_MOVER_HOUR * Fine) \div HourDen)
        stairs_charge == flights * STAIRS_SURCHARGE_PER_FLIGHT * Fine
        subtotal == base + volume_charge + distance_charge + van_charge
                    + labour_charge + stairs_charge
        weekend_extra == IF is_weekend
                         THEN (subtotal \div 100) * (WEEKEND_PREMIUM - 100)
                              + ((subtotal % 100) * (WEEKEND_PREMIUM - 100)) \div 100
                         ELSE 0
        total == subtotal + weekend_extra
    IN  [base |-> base, volume_charge |-> volume_charge,
         distance_charge |-> distance_charge, van_charge |-> van_charge,
         job_hours |-> job_hours, labour_charge |-> labour_charge,
         stairs_charge |-> stairs_charge, subtotal |-> subtotal,
         weekend_extra |-> weekend_extra, total |-> total]

calculate_rule_based_price(volume, distance, vans, crew, is_weekend, flights) ==
    LET l == rule_based_locals(volume, distance, vans, crew, is_weekend, flights)
        total == Max(l.total, MIN_QUOTE * Fine)
    IN  {[total |-> t,
          breakdown |->
             [base_rate |-> b, volume_charge |-> vc, distance_charge |-> dc,
              van_surcharge |-> vs, labour_charge |-> lc, stairs_charge |-> sc,
              weekend_premium |-> wp],
          job_hours |-> jh] :
            t \in PyRound(total, Fine),
            b \in PyRound(l.base, Fine),
            vc \in PyRound(l.volume_charge, Fine),
            dc \in PyRound(l.distance_charge, Fine),
            vs \in PyRound(l.van_charge, Fine),
            lc \in PyRound(l.labour_charge, Fine),
            sc \in PyRound(l.stairs_charge, Fine),
            wp \in PyRound(l.weekend_extra, Fine),
            jh \in PyRound(l.job_hours, HourDen \div 10)}

(***************************************************************************)
(* Evaluation of calculate_rule_based_price (analyze_quote, step 6)        *)
(***************************************************************************)
\* volumes 7.77 * k m3 and distances 15.01 * j miles (hundredths)
PricedVolumes == {777 * k : k \in 0..MaxPriceVolK}

PricedDistances == {1501 * j : j \in 0..MaxDistK}

InitRule ==
    /\ pc = "rule"
    /\ total_volume_m3 \in PricedVolumes
    /\ distance_miles \in PricedDistances
    /\ van_count \in 1..MaxVans
    /\ movers \in 0..MaxMovers
    /\ weekend \in BOOLEAN
    /\ stairs_flights \in 0..MaxStairs
    /\ rule_price_info = NoInfo
    /\ HybridIdle
    /\ VanIdle
    /\ ParseIdle
    /\ RequestIdle
    /\ EstimateIdle
    /\ FeatureIdle
    /\ DistanceIdle
    /\ QuoteIdle
    /\ ConcurrentIdle
    /\ CallsIdle

RulePrice ==
    /\ pc = "rule"
    /\ rule_price_info' \in calculate_rule_based_price(total_volume_m3, distance_miles,
                               van_count, movers, weekend, stairs_flights)
    /\ pc' = "rule_done"
    /\ UNCHANGED <<total_volume_m3, distance_miles, van_count, movers, weekend,
                   stairs_flights, hybridVars, vanVars, parseVars, requestVars,
                   estimateVars, featureVars, distanceVars, quoteVars, concurrentVars,
                   callVars>>

NextRule == RulePrice

SpecRule == InitRule /\ [][NextRule]_vars

(***************************************************************************)
(* Claims about calculate_rule_based_price                                 *)
(***************************************************************************)
\* The subtotal as the specification writes it, in 1/24000 pound:
\* 250 + volume*35 + miles*2.00 + max(van_count-1, 0)*150
\*     + movers*job_hours*25 + stairs_flights*50
SpecSubtotal ==
    250 * 24000 + total_volume_m3 * 35 * 240 + distance_miles * 2 * 240
    + (IF van_count > 1 THEN van_count - 1 ELSE 0) * 150 * 24000
    + movers * estimate_job_hours(total_volume_m3, distance_miles) * 20
    + stairs_flights * 50 * 24000

\* ... times 1.15 at the weekend, then floored at 200
SpecTotal ==
    LET premium == IF weekend THEN 3 * (SpecSubtotal \div 20) ELSE 0
        t == SpecSubtotal + premium
    IN  IF t >= 200 * 24000 THEN t ELSE 200 * 24000

\* the breakdown reports every charge component, to 2 decimal places
BreakdownReported ==
    LET b == rule_price_info.breakdown
    IN  /\ b.base_rate = 25000
        /\ b.volume_charge = 35 * total_volume_m3
        /\ b.distance_charge = 2 * distance_miles
        /\ b.van_surcharge = 15000 * (IF van_count > 1 THEN van_count - 1 ELSE 0)
        /\ IsNearest(b.labour_charge,
                     movers * estimate_job_hours(total_volume_m3, distance_miles) * 20, 240)
        /\ b.stairs_charge = 5000 * stairs_flights

\* C5 as claimed: total = max(S * (1.15 if weekend else 1), 200) with S the
\* subtotal above, and the breakdown reports each charge component.
C5_Original ==
    (pc = "rule_done") =>
        /\ 240 * rule_price_info.total = SpecTotal
        /\ BreakdownReported

\* C5 amended: total = round(max(S * (1.15 if weekend else 1), 200), 2), and
\* the breakdown reports each charge component rounded to 2 decimal places.
C5_RoundedTotal ==
    (pc = "rule_done") =>
        /\ IsNearest(rule_price_info.total, SpecTotal, 240)
        /\ BreakdownReported

C5_Witness ==
    /\ pc = "rule_done"
    /\ weekend
    /\ van_count > 1
    /\ movers > 0
    /\ stairs_flights > 0
    /\ total_volume_m3 > 1500
    /\ distance_miles > 1500
    /\ 240 * rule_price_info.total # SpecTotal

\* the inputs of C6: volume 0, distance 0, one van, two movers, no weekend
C6_Inputs ==
    /\ pc = "rule_done"
    /\ total_volume_m3 = 0
    /\ distance_miles = 0
    /\ van_count = 1
    /\ movers = 2
    /\ ~weekend
    /\ stairs_flights = 0

\* C6 as claimed: these inputs give the total 350.0, the labour being
\* 2 * 2.0 * 25 with job_hours at the 2.0-hour minimum.
C6_Original ==
    C6_Inputs =>
        /\ rule_price_info.total = 35000
        /\ rule_price_info.breakdown.labour_charge = 10000
        /\ rule_price_info.job_hours = 20

\* C6 amended: these inputs give the total 365.0: job_hours is 2.3 (loading
\* 1.0 + driving 0.5 + unloading 0.8, each at its own minimum, which is above
\* the 2.0-hour minimum) and the labour is 2 * 2.3 * 25 = 115.
C6_MinimalJob ==
    C6_Inputs =>
        /\ rule_price_info.total = 36500
        /\ rule_price_info.breakdown.labour_charge = 11500
        /\ rule_price_info.job_hours = 23

C6_Witness ==
    /\ C6_Inputs
    /\ rule_price_info.total = 36500

\* the locals of the call under evaluation, and of the same call on a weekday
CallLocals ==
    rule_based_locals(total_volume_m3, distance_miles, van_count, movers,
                      weekend, stairs_flights)

WeekdayLocals ==
    rule_based_locals(total_volume_m3, distance_miles, van_count, movers,
                      FALSE, stairs_flights)

\* the premium is applied once: the total before the floor is 1.15 times the
\* weekday subtotal at the weekend, and the subtotal itself on a weekday
PremiumOnce ==
    /\ WeekdayLocals.subtotal = SpecSubtotal
    /\ weekend => CallLocals.total = SpecSubtotal + 3 * (SpecSubtotal \div 20)
    /\ ~weekend => CallLocals.total = SpecSubtotal

\* C7 as claimed: the weekend total before the floor is exactly 1.15 times
\* the weekday subtotal and the breakdown's weekend_premium equals 0.15 times
\* that subtotal; on a weekday the premium is 0 and the total is the subtotal.
C7_Original ==
    (pc = "rule_done") =>
        /\ PremiumOnce
        /\ weekend =>
              240 * rule_price_info.breakdown.weekend_premium = 3 * (SpecSubtotal \div 20)
        /\ ~weekend => rule_price_info.breakdown.weekend_premium = 0

\* C7 amended: as claimed, except that the breakdown's weekend_premium equals
\* 0.15 times the subtotal rounded to 2 decimal places.
C7_PremiumOnce ==
    (pc = "rule_done") =>
        /\ PremiumOnce
        /\ weekend =>
              IsNearest(rule_price_info.breakdown.weekend_premium,
                        3 * (SpecSubtotal \div 20), 240)
        /\ ~weekend => rule_price_info.breakdown.weekend_premium = 0

C7_Witness ==
    /\ pc = "rule_done"
    /\ weekend
    /\ rule_price_info.breakdown.weekend_premium > 0
    /\ 240 * rule_price_info.breakdown.weekend_premium # 3 * (SpecSubtotal \div 20)

(***************************************************************************)
(* calculate_hybrid_price(ml_prediction, rule_based_price)                 *)
(* ml_prediction, lower, upper and clamped are in 1/10000 pound (pence     *)
(* times percent); rule_based_price and the returned price are in pence.   *)
(***************************************************************************)
\* Variant: the failed-prediction test is ml_prediction < 0.
calculate_hybrid_price_StrictFail(ml_prediction, rule_based_price) ==
    LET lower == rule_based_price * ML_LOWER_BOUND_FACTOR
        upper == rule_based_price * ML_UPPER_BOUND_FACTOR
        clamped == Max(lower, Min(ml_prediction, upper))
    IN  IF ml_prediction < 0
        THEN {[price |-> Max(rule_based_price, MIN_QUOTE), method |-> "rule_based"]}
        ELSE IF lower <= ml_prediction /\ ml_prediction <= upper
        THEN {[price |-> Max(p, MIN_QUOTE), method |-> "model"] :
                 p \in PyRound(ml_prediction, 100)}
        ELSE {[price |-> Max(p, MIN_QUOTE), method |-> "hybrid"] :
                 p \in PyRound(clamped, 100)}

\* Variant: a trusted prediction is returned without the minimum quote.
calculate_hybrid_price_NoFloor(ml_prediction, rule_based_price) ==
    LET lower == rule_based_price * ML_LOWER_BOUND_FACTOR
        upper == rule_based_price * ML_UPPER_BOUND_FACTOR
        clamped == Max(lower, Min(ml_prediction, upper))
    IN  IF ml_prediction <= 0
        THEN {[price |-> Max(rule_based_price, MIN_QUOTE), method |-> "rule_based"]}
        ELSE IF lower <= ml_prediction /\ ml_prediction <= upper
        THEN {[price |-> p, method |-> "model"] : p \in PyRound(ml_prediction, 100)}
        ELSE {[price |-> Max(p, MIN_QUOTE), method |-> "hybrid"] :
                 p \in PyRound(clamped, 100)}

\* Variant: min and max are exchanged in the clamp.
calculate_hybrid_price_SwapClamp(ml_prediction, rule_based_price) ==
    LET lower == rule_based_price * ML_LOWER_BOUND_FACTOR
        upper == rule_based_price * ML_UPPER_BOUND_FACTOR
        clamped == Min(lower, Max(ml_prediction, upper))
    IN  IF ml_prediction <= 0
        THEN {[price |-> Max(rule_based_price, MIN_QUOTE), method |-> "rule_based"]}
        ELSE IF lower <= ml_prediction /\ ml_prediction <= upper
        THEN {[price |-> Max(p, MIN_QUOTE), method |-> "model"] :
                 p \in PyRound(ml_prediction, 100)}
        ELSE {[price |-> Max(p, MIN_QUOTE), method |-> "hybrid"] :
                 p \in PyRound(clamped, 100)}

\* Variant: the clamp has no upper bound.
calculate_hybrid_price_NoUpper(ml_prediction, rule_based_price) ==
    LET lower == rule_based_price * ML_LOWER_BOUND_FACTOR
        upper == rule_based_price * ML_UPPER_BOUND_FACTOR
        clamped == Max(lower, ml_prediction)
    IN  IF ml_prediction <= 0
        THEN {[price |-> Max(rule_based_price, MIN_QUOTE), method |-> "rule_based"]}
        ELSE IF lower <= ml_prediction /\ ml_prediction <= upper
        THEN {[price |-> Max(p, MIN_QUOTE), method |-> "model"] :
                 p \in PyRound(ml_prediction, 100)}
        ELSE {[price |-> Max(p, MIN_QUOTE), method |-> "hybrid"] :
                 p \in PyRound(clamped, 100)}

\* lower and upper are float products: rule_based_price * 0.7 and
\* rule_based_price * 1.4 are each the nearest float to the product of two
\* floats that are themselves only near the decimals, so against a prediction
\* that equals the decimal product the float bound compares below, equal or
\* above (22.22 * 1.4 is 31.107999999999997, below 31.108, while 100.0 * 1.4
\* is 140.0): on a bound the test lower <= ml_prediction <= upper goes either
\* way, and the clamped value is then the bound itself.
calculate_hybrid_price(ml_prediction, rule_based_price) ==
    LET lower == rule_based_price * ML_LOWER_BOUND_FACTOR
        upper == rule_based_price * ML_UPPER_BOUND_FACTOR
        clamped == Max(lower, Min(ml_prediction, upper))
        trusted == {[price |-> Max(p, MIN_QUOTE), method |-> "model"] :
                       p \in PyRound(ml_prediction, 100)}
        bounded == {[price |-> Max(p, MIN_QUOTE), method |-> "hybrid"] :
                       p \in PyRound(clamped, 100)}
    IN  IF ml_prediction <= 0
        THEN {[price |-> Max(rule_based_price, MIN_QUOTE), method |-> "rule_based"]}
        ELSE IF lower < ml_prediction /\ ml_prediction < upper THEN trusted
        ELSE IF ml_prediction = lower \/ ml_prediction = upper THEN trusted \cup bounded
        ELSE bounded

(***************************************************************************)
(* Evaluation of calculate_hybrid_price (analyze_quote, step 8)            *)
(***************************************************************************)
\* rule prices 22.22 * k pounds (pence)
RulePrices == {2222 * k : k \in 1..MaxRuleK}

\* predictions 33.3333 * j pounds, the rule price itself, ten times it, and
\* the two bounds 0.70 and 1.40 times it
MlPredictions(r) == {333333 * j : j \in -1..MaxMlK} \cup {100 * r, 1000 * r, 70 * r, 140 * r}

InitHybrid ==
    /\ pc = "hybrid"
    /\ rule_price \in RulePrices
    /\ ml_price \in MlPredictions(rule_price)
    /\ estimate = 0
    /\ pricing_method = "none"
    /\ total_volume_m3 = 0
    /\ van_count = 0
    /\ movers = 0
    /\ RuleIdle
    /\ VanIdle
    /\ ParseIdle
    /\ RequestIdle
    /\ EstimateIdle
    /\ FeatureIdle
    /\ DistanceIdle
    /\ QuoteIdle
    /\ ConcurrentIdle
    /\ CallsIdle

HybridPrice ==
    /\ pc = "hybrid"
    /\ \E res \in calculate_hybrid_price(ml_price, rule_price) :
           /\ estimate' = res.price
           /\ pricing_method' = res.method
    /\ pc' = "hybrid_done"
    /\ UNCHANGED <<ml_price, rule_price, ruleVars, vanVars, parseVars, requestVars,
                   estimateVars, featureVars, distanceVars, quoteVars, concurrentVars,
                   callVars>>

NextHybrid == HybridPrice

SpecHybrid == InitHybrid /\ [][NextHybrid]_vars

(***************************************************************************)
(* Claims about calculate_hybrid_price                                     *)
(***************************************************************************)
\* p (pence) is x (1/10000 pound) rounded to 2 decimal places
IsRound2(p, x) == 2 * (100 * p - x) <= 100 /\ 2 * (x - 100 * p) <= 100

\* C1: for every rule price R > 0 and every prediction <= 0 the result is
\* the pair (max(R, 200), "rule_based").
C1_RuleBasedWithoutPrediction ==
    (pc = "hybrid_done" /\ rule_price > 0 /\ ml_price <= 0) =>
        /\ estimate = (IF rule_price >= MIN_QUOTE THEN rule_price ELSE MIN_QUOTE)
        /\ pricing_method = "rule_based"

C1_Witness ==
    /\ pc = "hybrid_done"
    /\ ml_price = 0
    /\ rule_price > MIN_QUOTE
    /\ estimate = rule_price
    /\ pricing_method = "rule_based"

\* C2 as claimed: for R > 0 and a prediction > 0: inside [0.70 R, 1.40 R],
\* the bounds included, the result is (max(round(prediction, 2), 200),
\* "model"); outside, the prediction is clamped into the interval and the
\* result is (max(round(clamped, 2), 200), "hybrid"); a prediction equal to R
\* gives "model" and the price round(R, 2) when that is >= 200.
C2_Original ==
    (pc = "hybrid_done" /\ rule_price > 0 /\ ml_price > 0) =>
        LET lo == 70 * rule_price
            hi == 140 * rule_price
            inside == lo <= ml_price /\ ml_price <= hi
            x == IF inside THEN ml_price ELSE IF ml_price < lo THEN lo ELSE hi
        IN  /\ pricing_method = (IF inside THEN "model" ELSE "hybrid")
            /\ \E p \in (x \div 100)..(x \div 100 + 1) : IsRound2(p, x) /\ estimate = Max(p, MIN_QUOTE)
            /\ (ml_price = 100 * rule_price) =>
                  /\ pricing_method = "model"
                  /\ (rule_price >= MIN_QUOTE => estimate = rule_price)

\* C3 as claimed: with prediction = 10 R the returned price is 1.40 R and the
\* method is "hybrid", for any R > 0.
C3_Original ==
    (pc = "hybrid_done" /\ rule_price > 0 /\ ml_price = 1000 * rule_price) =>
        /\ 100 * estimate = 140 * rule_price
        /\ pricing_method = "hybrid"

\* C3 amended: with prediction = 10 R the returned price is
\* max(round(1.40 R, 2), 200) and the method is "hybrid", for any R > 0.
C3_ClampedToUpper ==
    (pc = "hybrid_done" /\ rule_price > 0 /\ ml_price = 1000 * rule_price) =>
        LET hi == 140 * rule_price
        IN  /\ \E p \in (hi \div 100)..(hi \div 100 + 1) :
                  IsRound2(p, hi) /\ estimate = Max(p, MIN_QUOTE)
            /\ pricing_method = "hybrid"

C3_Witness ==
    /\ pc = "hybrid_done"
    /\ ml_price = 1000 * rule_price
    /\ pricing_method = "hybrid"
    /\ estimate > MIN_QUOTE
    /\ 100 * estimate # 140 * rule_price

\* C4 as claimed: whenever the prediction is used (> 0) the final price lies
\* inside [0.70 R, 1.40 R], for every R > 0.
C4_Original ==
    (pc = "hybrid_done" /\ rule_price > 0 /\ ml_price > 0) =>
        /\ 70 * rule_price <= 100 * estimate
        /\ 100 * estimate <= 140 * rule_price

\* C4 amended: whenever the prediction is used (> 0) the final price is the
\* minimum quote 200 or lies within half a penny (the rounding to 2 decimal
\* places) of [0.70 R, 1.40 R]; for R >= 200 it always lies within half a
\* penny of that interval.
C4_CorridorUpToRounding ==
    (pc = "hybrid_done" /\ rule_price > 0 /\ ml_price > 0) =>
        LET near == /\ 70 * rule_price - 50 <= 100 * estimate
                    /\ 100 * estimate <= 140 * rule_price + 50
        IN  /\ estimate = MIN_QUOTE \/ near
            /\ rule_price >= MIN_QUOTE => near

C4_Witness ==
    /\ pc = "hybrid_done"
    /\ ml_price > 0
    /\ rule_price >= MIN_QUOTE
    /\ estimate > MIN_QUOTE
    /\ 100 * estimate > 140 * rule_price
(***************************************************************************)
(* analyze_room_with_claude: the loop over the lines of the response       *)
(* (lines 554-583).  parse_line is one pass of the loop body: skipped, or  *)
(* the item the line appends.  Every volume of FURNITURE_VOLUMES is a      *)
(* whole number of ft3, so item_volume is whole and round(item_volume, 2)  *)
(* and round(total_volume_ft3, 2) are the values themselves.               *)
(***************************************************************************)
\* variant: the quantity is read but the volume is that of one unit
parse_line_UnitVolume(raw) ==
    LET stripped == Strip(raw)
    IN  IF stripped = <<>> \/ stripped[1] # "-"
        THEN [skipped |-> TRUE]
        ELSE LET line == Strip(Tail(stripped))
                 parens == Contains(line, <<"(">>) /\ Contains(line, <<")">>)
                 open == RFind(line, "(")
                 close == RFind(line, ")")
                 item_name == IF parens THEN Strip(SubSeq(line, 1, open - 1)) ELSE line
                 parsed == ParseInt(Strip(SubSeq(line, open + 1, close - 1)))
                 quantity == IF parens /\ parsed.ok THEN parsed.value ELSE 1
                 unit_volume == estimate_item_volume(item_name)
             IN  [skipped |-> FALSE,
                  item |-> [label |-> item_name, quantity |-> quantity,
                            volume_ft3 |-> unit_volume],
                  item_volume |-> unit_volume]

parse_line(raw) ==
    LET stripped == Strip(raw)
    IN  IF stripped = <<>> \/ stripped[1] # "-"
        THEN [skipped |-> TRUE]
        ELSE LET line == Strip(Tail(stripped))
                 parens == Contains(line, <<"(">>) /\ Contains(line, <<")">>)
                 open == RFind(line, "(")
                 close == RFind(line, ")")
                 item_name == IF parens THEN Strip(SubSeq(line, 1, open - 1)) ELSE line
                 quantity_str == Strip(SubSeq(line, open + 1, close - 1))
                 parsed == ParseInt(quantity_str)
                 quantity == IF parens /\ parsed.ok THEN parsed.value ELSE 1
                 unit_volume == estimate_item_volume(item_name)
                 item_volume == unit_volume * quantity
             IN  [skipped |-> FALSE,
                  item |-> [label |-> item_name, quantity |-> quantity,
                            volume_ft3 |-> item_volume],
                  item_volume |-> item_volume]

(***************************************************************************)
(* Evaluation of the response parser                                       *)
(***************************************************************************)
RECURSIVE JoinLines(_)
JoinLines(ls) ==
    IF ls = <<>> THEN <<>>
    ELSE IF Len(ls) = 1 THEN ls[1]
    ELSE ls[1] \o <<"\n">> \o JoinLines(Tail(ls))

\* names with an exact entry, a partial match and no match in FURNITURE_VOLUMES
ItemNames == {<<"s", "o", "f", "a">>,
        <<"O", "a", "k", " ", "W", "a", "r", "d", "r", "o", "b", "e">>,
        <<"k", "a", "y", "a", "k">>}

\* what follows the name: nothing, a quantity, and malformed quantities
QuantityTexts == {<<>>,
        <<" ", "(", "2", ")">>,
        <<" ", "(", "0", ")">>,
        <<" ", "(", "-", "2", ")">>,
        <<" ", "(", "t", "w", "o", ")">>,
        <<" ", ")", "2", "(">>,
        <<" ", "(", "4", ")", " ", "(", "3", ")">>}

\* bullet lines of other shapes, and lines that are not bullet lines
OtherLines == {<<>>,
        <<"I", "t", "e", "m", "s", ":">>,
        <<"s", "o", "f", "a", " ", "(", "2", ")">>,
        <<"-", "s", "o", "f", "a", " ", "(", "2", ")">>,
        <<" ", " ", "-", " ", "s", "o", "f", "a", " ", "(", "2", ")", " ", " ">>,
        <<"-", " ", "(", "3", ")">>,
        <<"-", "-", "-">>,
        <<"-", " ", "3", "-", "s", "e", "a", "t", "e", "r", " ", "s", "o", "f", "a", " ", "(", "2", ")">>,
        <<"-", " ", "a", "r", "m", "c", "h", "a", "i", "r", " ", "(", "1", ")">>}

ResponseLines ==
    {<<"-", " ">> \o name \o qty : name \in ItemNames, qty \in QuantityTexts}
    \cup OtherLines

\* the response texts: up to MaxLines lines joined by line feeds
Responses ==
    UNION {{JoinLines(ls) : ls \in [1..n -> ResponseLines]} : n \in 0..MaxLines}

InitParse ==
    /\ pc = "parse"
    /\ response_text \in Responses
    /\ lines = Split(response_text, "\n")
    /\ items = <<>>
    /\ total_volume_ft3 = 0
    /\ result = NoResult
    /\ total_volume_m3 = 0
    /\ van_count = 0
    /\ movers = 0
    /\ HybridIdle
    /\ RuleIdle
    /\ VanIdle
    /\ RequestIdle
    /\ EstimateIdle
    /\ FeatureIdle
    /\ DistanceIdle
    /\ QuoteIdle
    /\ ConcurrentIdle
    /\ CallsIdle

\* one pass of the for loop
ParseLine ==
    /\ pc = "parse"
    /\ lines # <<>>
    /\ LET p == parse_line(Head(lines))
       IN  IF p.skipped
           THEN UNCHANGED <<items, total_volume_ft3>>
           ELSE /\ items' = Append(items, p.item)
                /\ total_volume_ft3' = total_volume_ft3 + p.item_volume
    /\ lines' = Tail(lines)
    /\ UNCHANGED <<pc, response_text, result, hybridVars, ruleVars, vanVars, requestVars,
                   estimateVars, featureVars, distanceVars, quoteVars, concurrentVars,
                   callVars>>

\* the return after the loop
ParseReturn ==
    /\ pc = "parse"
    /\ lines = <<>>
    /\ result' = [items |-> items, total_volume_ft3 |-> total_volume_ft3]
    /\ pc' = "parse_done"
    /\ UNCHANGED <<response_text, lines, items, total_volume_ft3,
                   hybridVars, ruleVars, vanVars, requestVars, estimateVars,
                   featureVars, distanceVars, quoteVars, concurrentVars, callVars>>

NextParse == ParseLine \/ ParseReturn

SpecParse == InitParse /\ [][NextParse]_vars

(***************************************************************************)
(* Claims about the response parser                                        *)
(***************************************************************************)
\* C10: every item the parser produces, for any response text, has
\* quantity >= 1 and volume_ft3 >= 0, also when the parenthesised quantity
\* text of a bullet line is 0 or a negative integer.
C10_Original ==
    \A i \in 1..Len(items) : items[i].quantity >= 1 /\ items[i].volume_ft3 >= 0

RECURSIVE SumVolumes(_)
SumVolumes(its) ==
    IF its = <<>> THEN 0 ELSE its[1].volume_ft3 + SumVolumes(Tail(its))

\* the lines of the response the loop does not skip
IsBulletLine(raw) == Strip(raw) # <<>> /\ Strip(raw)[1] = "-"

BulletLines(text) ==
    SelectSeq(Split(text, "\n"), IsBulletLine)

SpecExampleResponse ==
    <<"-", " ", "3", "-", "s", "e", "a", "t", "e", "r", " ", "s", "o", "f", "a", " ",
      "(", "2", ")", "\n",
      "-", " ", "a", "r", "m", "c", "h", "a", "i", "r", " ", "(", "1", ")">>

SpecExampleResult ==
    [items |-> <<[label |-> <<"3", "-", "s", "e", "a", "t", "e", "r", " ", "s", "o", "f", "a">>,
                  quantity |-> 2, volume_ft3 |-> 12000],
                 [label |-> <<"a", "r", "m", "c", "h", "a", "i", "r">>,
                  quantity |-> 1, volume_ft3 |-> 3000]>>,
     total_volume_ft3 |-> 15000]

\* C11: the parser returns one item per bullet line of the response, each
\* with volume_ft3 = quantity * estimate_item_volume(label), and a total that
\* is the sum of the items' volume_ft3; the response "- 3-seater sofa (2)" /
\* "- armchair (1)" gives (3-seater sofa, 2, 120.0), (armchair, 1, 30.0) and
\* the total 150.0.
C11_ItemVolumesAndTotal ==
    pc = "parse_done" =>
        /\ Len(result.items) = Len(BulletLines(response_text))
        /\ \A i \in 1..Len(result.items) :
              result.items[i].volume_ft3 =
                  result.items[i].quantity * estimate_item_volume(result.items[i].label)
        /\ result.total_volume_ft3 = SumVolumes(result.items)
        /\ (response_text = SpecExampleResponse => result = SpecExampleResult)

C11_Witness ==
    /\ pc = "parse_done"
    /\ response_text = SpecExampleResponse
    /\ Len(result.items) = 2
    /\ result.total_volume_ft3 = 15000

(***************************************************************************)
(* Floats beyond the finite range.  FLOAT_INF stands for the float inf: it *)
(* is above every finite value of the model, and a sum with it is inf.     *)
(* HUGE_QUANTITY stands for the integer 10^308, which int() reads from a   *)
(* 1 followed by 308 zeros and which float arithmetic still accepts        *)
(* (50.0 * 10^308 is inf).                                                 *)
(***************************************************************************)
FLOAT_INF == 1000000000

HUGE_QUANTITY == 500000000

IsFinite(x) == x # FLOAT_INF

\* a + b on floats
FloatAdd(a, b) == IF IsFinite(a) /\ IsFinite(b) THEN a + b ELSE FLOAT_INF

(***************************************************************************)
(* aggregate_items_and_volume(all_results)                                 *)
(* label_data is the dict, as the sequence of its entries in insertion     *)
(* order.  The per-photo results are those analyze_room_with_claude        *)
(* returns, so every item has its three keys and the .get defaults are     *)
(* never taken.  Volumes are whole hundredths of a ft3, which round(.., 2) *)
(* leaves as they are.                                                     *)
(***************************************************************************)
NoNote == "None"

FallbackNote == "No specific items detected - using fallback estimate"

FallbackItem ==
    [name |-> <<"M", "i", "s", "c", "e", "l", "l", "a", "n", "e", "o", "u", "s", " ",
                "i", "t", "e", "m", "s">>,
     quantity |-> 10,
     note |-> FallbackNote,
     estimated_volume_ft3 |-> 3000]

FALLBACK_TOTAL_VOLUME_FT3 == 3000

\* variant: labels are merged without regard to case
merge_item_IgnoreCase(label_data, item) ==
    IF \E i \in 1..Len(label_data) : ToLower(label_data[i].label) = ToLower(item.label)
    THEN [i \in 1..Len(label_data) |->
            IF ToLower(label_data[i].label) = ToLower(item.label)
            THEN [label |-> label_data[i].label,
                  quantity |-> label_data[i].quantity + item.quantity,
                  volume |-> FloatAdd(label_data[i].volume, item.volume_ft3)]
            ELSE label_data[i]]
    ELSE Append(label_data, [label |-> item.label, quantity |-> item.quantity,
                             volume |-> item.volume_ft3])

\* the body of the inner loop: one item into label_data
\* variant: a label seen again moves to the end
merge_item_MoveToEnd(label_data, item) ==
    IF \E i \in 1..Len(label_data) : label_data[i].label = item.label
    THEN LET i == CHOOSE k \in 1..Len(label_data) : label_data[k].label = item.label
         IN  Append(SelectSeq(label_data, LAMBDA d : d.label # item.label),
                    [label |-> item.label,
                     quantity |-> label_data[i].quantity + item.quantity,
                     volume |-> FloatAdd(label_data[i].volume, item.volume_ft3)])
    ELSE Append(label_data, [label |-> item.label, quantity |-> item.quantity,
                             volume |-> item.volume_ft3])

merge_item(label_data, item) ==
    IF \E i \in 1..Len(label_data) : label_data[i].label = item.label
    THEN [i \in 1..Len(label_data) |->
            IF label_data[i].label = item.label
            THEN [label |-> item.label,
                  quantity |-> label_data[i].quantity + item.quantity,
                  volume |-> FloatAdd(label_data[i].volume, item.volume_ft3)]
            ELSE label_data[i]]
    ELSE Append(label_data, [label |-> item.label, quantity |-> item.quantity,
                             volume |-> item.volume_ft3])

RECURSIVE merge_items(_, _)
merge_items(label_data, its) ==
    IF its = <<>> THEN label_data
    ELSE merge_items(merge_item(label_data, its[1]), Tail(its))

\* the outer loop: label_data after all results
RECURSIVE merge_results(_, _)
merge_results(label_data, results) ==
    IF results = <<>> THEN label_data
    ELSE merge_results(merge_items(label_data, results[1].items), Tail(results))

\* variant: the total is recomputed from the items of the results
RECURSIVE sum_totals_FromItems(_)
sum_totals_FromItems(results) ==
    IF results = <<>> THEN 0
    ELSE FloatAdd(SumVolumes(results[1].items), sum_totals_FromItems(Tail(results)))

\* the outer loop: total_volume_ft3 after all results
RECURSIVE sum_totals(_)
sum_totals(results) ==
    IF results = <<>> THEN 0
    ELSE FloatAdd(results[1].total_volume_ft3, sum_totals(Tail(results)))

\* variant: the summed total is kept when nothing was detected
aggregate_items_and_volume_KeepTotal(results) ==
    LET label_data == merge_results(<<>>, results)
        its == [i \in 1..Len(label_data) |->
                  [name |-> label_data[i].label,
                   quantity |-> label_data[i].quantity,
                   note |-> NoNote,
                   estimated_volume_ft3 |-> label_data[i].volume]]
    IN  IF its = <<>>
        THEN [items |-> <<FallbackItem>>, total_volume_ft3 |-> sum_totals(results)]
        ELSE [items |-> its, total_volume_ft3 |-> sum_totals(results)]

aggregate_items_and_volume(results) ==
    LET label_data == merge_results(<<>>, results)
        its == [i \in 1..Len(label_data) |->
                  [name |-> label_data[i].label,
                   quantity |-> label_data[i].quantity,
                   note |-> NoNote,
                   estimated_volume_ft3 |-> label_data[i].volume]]
    IN  IF its = <<>>
        THEN [items |-> <<FallbackItem>>, total_volume_ft3 |-> FALLBACK_TOTAL_VOLUME_FT3]
        ELSE [items |-> its, total_volume_ft3 |-> sum_totals(results)]

(***************************************************************************)
(* Evaluation of aggregate_items_and_volume                                *)
(***************************************************************************)
\* labels that differ in case only, and another one; the volume of an item
\* is its quantity times the unit volume of its label
DetectedLabels ==
    {[label |-> <<"s", "o", "f", "a">>, quantity |-> 1],
     [label |-> <<"S", "o", "f", "a">>, quantity |-> 2],
     [label |-> <<"b", "e", "d">>, quantity |-> 1]}

DetectedItems ==
    {[label |-> d.label, quantity |-> d.quantity,
      volume_ft3 |-> estimate_item_volume(d.label) * d.quantity] : d \in DetectedLabels}

ItemLists == UNION {[1..n -> DetectedItems] : n \in 0..MaxPhotoItems}

\* per-photo results: the total is that of the items; a result without items
\* also comes with a total that is not zero
PhotoResults ==
    {[items |-> its, total_volume_ft3 |-> SumVolumes(its)] : its \in ItemLists}
    \cup {[items |-> <<>>, total_volume_ft3 |-> 2500]}

InitAggregate ==
    /\ pc = "aggregate"
    /\ all_results \in UNION {[1..n -> PhotoResults] : n \in 0..MaxPhotos}
    /\ quote_items = <<>>
    /\ quote_volume_ft3 = 0
    /\ total_volume_m3 = 0
    /\ van_count = 0
    /\ movers = 0
    /\ HybridIdle
    /\ RuleIdle
    /\ VanIdle
    /\ ParseIdle
    /\ EstimateIdle
    /\ FeatureIdle
    /\ DistanceIdle
    /\ QuoteIdle
    /\ ConcurrentIdle
    /\ CallsIdle

Aggregate ==
    /\ pc = "aggregate"
    /\ LET r == aggregate_items_and_volume(all_results)
       IN  /\ quote_items' = r.items
           /\ quote_volume_ft3' = r.total_volume_ft3
    /\ pc' = "aggregate_done"
    /\ UNCHANGED <<all_results, hybridVars, ruleVars, vanVars, parseVars, estimateVars,
                   featureVars, distanceVars, quoteVars, concurrentVars, callVars>>

NextAggregate == Aggregate

SpecAggregate == InitAggregate /\ [][NextAggregate]_vars

(***************************************************************************)
(* Claims about aggregate_items_and_volume                                 *)
(***************************************************************************)
\* the items of all the results, in order
RECURSIVE InputItems(_)
InputItems(results) ==
    IF results = <<>> THEN <<>> ELSE results[1].items \o InputItems(Tail(results))

RECURSIVE LabelQuantity(_, _)
LabelQuantity(its, l) ==
    IF its = <<>> THEN 0
    ELSE (IF its[1].label = l THEN its[1].quantity ELSE 0) + LabelQuantity(Tail(its), l)

RECURSIVE LabelVolume(_, _)
LabelVolume(its, l) ==
    IF its = <<>> THEN 0
    ELSE (IF its[1].label = l THEN its[1].volume_ft3 ELSE 0) + LabelVolume(Tail(its), l)

InputLabels == {InputItems(all_results)[i].label : i \in 1..Len(InputItems(all_results))}

TwoSofaPhotos ==
    LET photo == [items |-> <<[label |-> <<"s", "o", "f", "a">>, quantity |-> 1,
                               volume_ft3 |-> 5000]>>,
                  total_volume_ft3 |-> 5000]
    IN  <<photo, photo>>

\* C12: the aggregator returns exactly one record per distinct label of the
\* per-photo results (labels equal only when they are the same string, case
\* included), with the summed quantity and volume of the items of that
\* label; two photos each with (sofa, 1, 50) give the single record
\* (sofa, 2, 100.0) and the total 100.0.
C12_OneRecordPerLabel ==
    pc = "aggregate_done" =>
        /\ \A l \in InputLabels :
              \E i \in 1..Len(quote_items) :
                  /\ quote_items[i].name = l
                  /\ quote_items[i].quantity = LabelQuantity(InputItems(all_results), l)
                  /\ quote_items[i].estimated_volume_ft3 = LabelVolume(InputItems(all_results), l)
                  /\ \A j \in 1..Len(quote_items) : quote_items[j].name = l => j = i
        /\ (InputLabels # {} => Len(quote_items) = Cardinality(InputLabels))
        /\ (all_results = TwoSofaPhotos =>
              /\ Len(quote_items) = 1
              /\ quote_items[1].name = <<"s", "o", "f", "a">>
              /\ quote_items[1].quantity = 2
              /\ quote_items[1].estimated_volume_ft3 = 10000
              /\ quote_volume_ft3 = 10000)

C12_Witness ==
    /\ pc = "aggregate_done"
    /\ all_results = TwoSofaPhotos
    /\ Len(quote_items) = 1
    /\ quote_volume_ft3 = 10000

MiscellaneousItems ==
    <<"M", "i", "s", "c", "e", "l", "l", "a", "n", "e", "o", "u", "s", " ",
      "i", "t", "e", "m", "s">>

\* C13: when no item is detected in any photo (for any number of photos,
\* none included) the aggregator returns the single item "Miscellaneous
\* items" with quantity 10 and volume 30.0 and the total 30.0, whatever the
\* per-photo totals were; when an item is detected the fallback item is absent.
C13_Fallback ==
    pc = "aggregate_done" =>
        /\ (InputLabels = {} =>
              /\ Len(quote_items) = 1
              /\ quote_items[1].name = MiscellaneousItems
              /\ quote_items[1].quantity = 10
              /\ quote_items[1].estimated_volume_ft3 = 3000
              /\ quote_volume_ft3 = 3000)
        /\ (InputLabels # {} =>
              \A i \in 1..Len(quote_items) : quote_items[i].name # MiscellaneousItems)

C13_Witness ==
    /\ pc = "aggregate_done"
    /\ Len(all_results) = 2
    /\ InputLabels = {}
    /\ sum_totals(all_results) = 5000
    /\ quote_volume_ft3 = 3000
    /\ quote_items[1].name = MiscellaneousItems

(***************************************************************************)
(* Evaluation of estimate_item_volume                                      *)
(***************************************************************************)
UpperChar(c) ==
    IF IndexIn(LowerCase, c) > 0 THEN UpperCase[IndexIn(LowerCase, c)] ELSE c

ToUpper(s) == [i \in 1..Len(s) |-> UpperChar(s[i])]

TableKeys == {FURNITURE_VOLUMES[i].key : i \in 1..Len(FURNITURE_VOLUMES)}

\* the keys of the table; the keys in capitals, between blanks, after
\* another word, and cut short by a letter; labels that match nothing
ItemLabels ==
    TableKeys
    \cup {ToUpper(k) : k \in TableKeys}
    \cup {<<" ">> \o k \o <<" ", "\t">> : k \in TableKeys}
    \cup {<<"O", "l", "d", " ">> \o k : k \in TableKeys}
    \cup {SubSeq(k, 1, Len(k) - 1) : k \in TableKeys}
    \cup {<<>>, <<"k", "a", "y", "a", "k">>, <<"x", "q">>, <<"Z">>}

InitEstimate ==
    /\ pc = "estimate"
    /\ item_label \in ItemLabels
    /\ item_unit_volume = 0
    /\ total_volume_m3 = 0
    /\ van_count = 0
    /\ movers = 0
    /\ HybridIdle
    /\ RuleIdle
    /\ VanIdle
    /\ ParseIdle
    /\ RequestIdle
    /\ FeatureIdle
    /\ DistanceIdle
    /\ QuoteIdle
    /\ ConcurrentIdle
    /\ CallsIdle

EstimateVolume ==
    /\ pc = "estimate"
    /\ item_unit_volume' = estimate_item_volume(item_label)
    /\ pc' = "estimate_done"
    /\ UNCHANGED <<item_label, hybridVars, ruleVars, vanVars, parseVars, requestVars,
                   featureVars, distanceVars, quoteVars, concurrentVars, callVars>>

NextEstimate == EstimateVolume

SpecEstimate == InitEstimate /\ [][NextEstimate]_vars

(***************************************************************************)
(* Claims about estimate_item_volume                                       *)
(***************************************************************************)
\* entry i of the table matches the label l in the scan
ScanMatches(i, l) ==
    \/ Contains(l, FURNITURE_VOLUMES[i].key)
    \/ Contains(FURNITURE_VOLUMES[i].key, l)

ThreeSeaterSofa == <<"3", "-", "s", "e", "a", "t", "e", "r", " ", "s", "o", "f", "a">>

\* C14: estimate_item_volume works on the label in lower case and without
\* surrounding blanks; a label that is a key of the table gets that key's
\* volume, whatever else matches ("3-seater sofa" gets 60.0, not the 50.0 of
\* "sofa"); any other label gets the volume of the first entry of the table
\* whose key is part of the label or has the label as a part; a label that
\* matches no entry gets 15.0; and every label gets a value.
C14_EstimateContract ==
    LET l == Strip(ToLower(item_label))
        n == Len(FURNITURE_VOLUMES)
        IsKey == \E i \in 1..n : FURNITURE_VOLUMES[i].key = l
    IN  /\ (pc = "estimate" =>
              estimate_item_volume(item_label) \in
                  {FURNITURE_VOLUMES[i].volume : i \in 1..n} \cup {1500})
        /\ (pc = "estimate_done" =>
              /\ \A i \in 1..n :
                    FURNITURE_VOLUMES[i].key = l => item_unit_volume = FURNITURE_VOLUMES[i].volume
              /\ ~IsKey =>
                    \A i \in 1..n :
                        (ScanMatches(i, l) /\ \A j \in 1..(i - 1) : ~ScanMatches(j, l))
                            => item_unit_volume = FURNITURE_VOLUMES[i].volume
              /\ (~IsKey /\ \A i \in 1..n : ~ScanMatches(i, l)) => item_unit_volume = 1500
              /\ item_label = ThreeSeaterSofa => item_unit_volume = 6000)

C14_Witness ==
    /\ pc = "estimate_done"
    /\ item_label = ToUpper(ThreeSeaterSofa)
    /\ item_unit_volume = 6000

(***************************************************************************)
(* estimate_rooms_from_volume and build_features_for_price_model           *)
(* Volumes in hundredths of a m3, distances in tenths of a km (the         *)
(* distance is round(.., 1) of a float, or the fallback 32.0).  float() of *)
(* these values changes nothing.  now is datetime.now(): weekday() is 0    *)
(* for Monday to 6 for Sunday, month is 1 to 12.                           *)
(***************************************************************************)
\* variant: the steps are taken below the thresholds, not at them
estimate_rooms_from_volume_Below(volume) ==
    IF volume < 1500 THEN 2
    ELSE IF volume < 3000 THEN 4
    ELSE IF volume < 5000 THEN 5
    ELSE 6

estimate_rooms_from_volume(volume) ==
    IF volume <= 1500 THEN 2
    ELSE IF volume <= 3000 THEN 4
    ELSE IF volume <= 5000 THEN 5
    ELSE 6

\* the training schema, train_model.py
FEATURES == <<"distance_km", "rooms", "stairs", "packing", "day_of_week", "month">>

build_features_for_price_model(volume, km, date) ==
    LET rooms == estimate_rooms_from_volume(volume)
        stairs == 0
        packing == 0
        day_of_week == date.weekday + 1
        month == date.month
    IN  << <<km, rooms, stairs, packing, day_of_week, month>> >>

(***************************************************************************)
(* Evaluation of build_features_for_price_model                            *)
(***************************************************************************)
Dates == [weekday : 0..6, month : 1..12]

RoomVolumes == {500 * k + e : k \in 0..MaxRoomVolK, e \in {-1, 0, 1}}

RoomDistances == {53 * j : j \in 0..MaxKmK} \cup {320}

InitFeatures ==
    /\ pc = "features"
    /\ total_volume_m3 \in RoomVolumes
    /\ distance_km \in RoomDistances
    /\ now \in Dates
    /\ features = <<>>
    /\ van_count = 0
    /\ movers = 0
    /\ HybridIdle
    /\ RuleIdle
    /\ VanIdle
    /\ ParseIdle
    /\ RequestIdle
    /\ EstimateIdle
    /\ DistanceIdle
    /\ QuoteIdle
    /\ ConcurrentIdle
    /\ CallsIdle

BuildFeatures ==
    /\ pc = "features"
    /\ features' = build_features_for_price_model(total_volume_m3, distance_km, now)
    /\ pc' = "features_done"
    /\ UNCHANGED <<distance_km, now, hybridVars, ruleVars, vanVars, parseVars,
                   requestVars, estimateVars, distanceVars, quoteVars, concurrentVars,
                   callVars>>

NextFeatures == BuildFeatures

SpecFeatures == InitFeatures /\ [][NextFeatures]_vars

(***************************************************************************)
(* Claims about build_features_for_price_model                             *)
(***************************************************************************)
\* the position of a column in the training schema
Column(name) == CHOOSE i \in 1..Len(FEATURES) : FEATURES[i] = name

\* C15: the feature builder returns one row of six values, in the order of
\* the training schema: distance_km, rooms, stairs, packing, day_of_week,
\* month; stairs and packing are 0, day_of_week is 1 (Monday) to 7, month is
\* 1 to 12, and rooms is 2 up to 15 m3, 4 up to 30, 5 up to 50, and 6 above.
C15_FeatureRow ==
    pc = "features_done" =>
        /\ Len(features) = 1
        /\ Len(features[1]) = 6
        /\ Len(FEATURES) = 6
        /\ features[1][Column("distance_km")] = distance_km
        /\ features[1][Column("rooms")] =
              (IF total_volume_m3 <= 1500 THEN 2
               ELSE IF total_volume_m3 <= 3000 THEN 4
               ELSE IF total_volume_m3 <= 5000 THEN 5
               ELSE 6)
        /\ features[1][Column("stairs")] = 0
        /\ features[1][Column("packing")] = 0
        /\ features[1][Column("day_of_week")] \in 1..7
        /\ (now.weekday = 0 <=> features[1][Column("day_of_week")] = 1)
        /\ features[1][Column("month")] = now.month
        /\ features[1][Column("month")] \in 1..12
        /\ features[1] = <<features[1][1], features[1][2], 0, 0, now.weekday + 1, now.month>>

C15_Witness ==
    /\ pc = "features_done"
    /\ total_volume_m3 = 3000
    /\ now = [weekday |-> 6, month |-> 12]
    /\ features = << <<320, 4, 0, 0, 7, 12>> >>

(***************************************************************************)
(* fallback_distance and get_google_maps_distance                          *)
(* distance_km in tenths of a km, distance_miles in hundredths of a mile.  *)
(* A reply is what requests.get brings: http is "ok", or "error" (the call *)
(* or raise_for_status raises) or "timeout"; an "ok" reply carries the     *)
(* JSON body: its status, whether rows[0].elements[0] exists, and the      *)
(* element's status, distance and duration where present.                  *)
(***************************************************************************)
fallback_distance ==
    [distance_km |-> 320,
     distance_miles |-> 2000,
     duration_text |-> "~45 mins (estimated)",
     duration_seconds |-> 2700,
     source |-> "fallback"]

\* round(meters / 1000.0 * 0.621371, 1) in tenths of a mile: the integers
\* nearest to meters * 621371 / 10^8, the product taken in two halves
MilesTenths(meters) ==
    LET xh == meters \div 10000
        xl == meters % 10000
        mid == xh * 1371 + xl * 62
        low == xl * 1371
        carry == mid + (low \div 10000)
        whole == xh * 62 + (carry \div 10000)
        frac == (carry % 10000) * 10000 + (low % 10000)
    IN  IF 2 * frac < 100000000 THEN {whole}
        ELSE IF 2 * frac > 100000000 THEN {whole + 1}
        ELSE {whole, whole + 1}

\* variant: the status of the element is not looked at
get_google_maps_distance_AnyElement(key, reply) ==
    IF ~key THEN {fallback_distance}
    ELSE IF reply.http # "ok" THEN {fallback_distance}
    ELSE IF reply.status # "OK" THEN {fallback_distance}
    ELSE IF ~reply.has_element THEN {fallback_distance}
    ELSE IF ~reply.has_distance \/ ~reply.has_duration THEN {fallback_distance}
    ELSE {[distance_km |-> km,
           distance_miles |-> 10 * mi,
           duration_text |-> reply.duration_text,
           duration_seconds |-> reply.seconds,
           source |-> "google_maps"] :
             km \in PyRound(reply.meters, 100), mi \in MilesTenths(reply.meters)}

get_google_maps_distance(key, reply) ==
    IF ~key THEN {fallback_distance}
    \* requests.get or raise_for_status raises: the except clause
    ELSE IF reply.http # "ok" THEN {fallback_distance}
    ELSE IF reply.status # "OK" THEN {fallback_distance}
    \* data["rows"][0]["elements"][0] raises: the except clause
    ELSE IF ~reply.has_element THEN {fallback_distance}
    ELSE IF reply.element_status # "OK" THEN {fallback_distance}
    \* element["distance"] or element["duration"] raises: the except clause
    ELSE IF ~reply.has_distance \/ ~reply.has_duration THEN {fallback_distance}
    ELSE {[distance_km |-> km,
           distance_miles |-> 10 * mi,
           duration_text |-> reply.duration_text,
           duration_seconds |-> reply.seconds,
           source |-> "google_maps"] :
             km \in PyRound(reply.meters, 100), mi \in MilesTenths(reply.meters)}

(***************************************************************************)
(* The requests a call sends to the services outside the process.  The     *)
(* thread that sends one waits for the reply (requests.get with a timeout, *)
(* client.messages.create) while the server runs the other requests: the   *)
(* sending and the return of the call are two steps.                       *)
(***************************************************************************)
\* requests.get of get_google_maps_distance
maps_call == <<[service |-> "maps", photo |-> 0]>>

\* requests.get of download_image_as_base64, for photo i
download_call(i) == <<[service |-> "download", photo |-> i]>>

\* the client is built without max_retries and so keeps the retry count of
\* its library: a failed request is sent again at most this many times
DEFAULT_MAX_RETRIES == 2

\* one request of client.messages.create of analyze_room_with_claude, for
\* photo i.  The client is built as anthropic.Anthropic(api_key=...), without
\* max_retries: inside messages.create it sends a request again when an
\* attempt fails with a connection error, a timeout or a 408, 409, 429 or 5xx
\* answer, and gives the answer or raises after the last attempt.
vision_call(i) == <<[service |-> "vision", photo |-> i]>>

\* the client may send the vision request of photo i again: log holds at
\* most DEFAULT_MAX_RETRIES requests for it
MayResend(log, i) == Cardinality({k \in 1..Len(log) : log[k] = vision_call(i)[1]}) <= DEFAULT_MAX_RETRIES

(***************************************************************************)
(* Evaluation of get_google_maps_distance                                  *)
(***************************************************************************)
RouteMeters == {12345 * k : k \in 0..MaxMetersK} \cup {32150}

MapsReplies ==
    {[http |-> h] : h \in {"error", "timeout"}}
    \cup [http : {"ok"},
          status : {"OK", "REQUEST_DENIED", "missing"},
          has_element : BOOLEAN,
          element_status : {"OK", "ZERO_RESULTS", "missing"},
          has_distance : BOOLEAN,
          meters : RouteMeters,
          has_duration : BOOLEAN,
          seconds : {1800},
          duration_text : {"30 mins"}]

InitDistance ==
    /\ pc = "distance"
    /\ maps_key \in BOOLEAN
    /\ maps_reply \in MapsReplies
    /\ distance_info = NoDistance
    /\ total_volume_m3 = 0
    /\ van_count = 0
    /\ movers = 0
    /\ HybridIdle
    /\ RuleIdle
    /\ VanIdle
    /\ ParseIdle
    /\ RequestIdle
    /\ EstimateIdle
    /\ FeatureIdle
    /\ QuoteIdle
    /\ ConcurrentIdle
    /\ CallsIdle

\* the call up to requests.get: without a key it returns the fallback at
\* once; with a key it sends the request and waits for the reply
GetDistance ==
    /\ pc = "distance"
    /\ IF maps_key
       THEN /\ external_calls' = external_calls \o maps_call
            /\ pc' = "distance_wait"
            /\ UNCHANGED distance_info
       ELSE /\ distance_info' \in get_google_maps_distance(maps_key, maps_reply)
            /\ pc' = "distance_done"
            /\ UNCHANGED external_calls
    /\ UNCHANGED <<maps_key, maps_reply, hybridVars, ruleVars, vanVars, parseVars,
                   requestVars, estimateVars, featureVars, quoteVars, concurrentVars>>

\* requests.get returns or raises, and the call runs to its return
GetDistanceReply ==
    /\ pc = "distance_wait"
    /\ distance_info' \in get_google_maps_distance(maps_key, maps_reply)
    /\ pc' = "distance_done"
    /\ UNCHANGED <<maps_key, maps_reply, hybridVars, ruleVars, vanVars, parseVars,
                   requestVars, estimateVars, featureVars, quoteVars, concurrentVars,
                   callVars>>

NextDistance == GetDistance \/ GetDistanceReply

SpecDistance == InitDistance /\ [][NextDistance]_vars

(***************************************************************************)
(* Claims about get_google_maps_distance                                   *)
(***************************************************************************)
\* the reply is a JSON body whose two statuses are OK
BothStatusesOK ==
    /\ maps_reply.http = "ok"
    /\ maps_reply.status = "OK"
    /\ maps_reply.has_element
    /\ maps_reply.element_status = "OK"

\* C17: get_google_maps_distance always returns; without an API key, when
\* the HTTP call fails or times out, when the status of the reply or of its
\* element is not OK, or when anything else raises, it returns exactly
\* 32.0 km, 20.0 miles, "~45 mins (estimated)", 2700 s, source "fallback";
\* the source is "google_maps" only when both statuses are OK.
C17_DistanceFallback ==
    /\ (pc \in {"distance", "distance_wait"} =>
          get_google_maps_distance(maps_key, maps_reply) # {})
    /\ (pc = "distance_done" =>
          /\ (~maps_key \/ ~BothStatusesOK
                \/ ~maps_reply.has_distance \/ ~maps_reply.has_duration) =>
                distance_info = [distance_km |-> 320, distance_miles |-> 2000,
                                 duration_text |-> "~45 mins (estimated)",
                                 duration_seconds |-> 2700, source |-> "fallback"]
          /\ distance_info.source \in {"google_maps", "fallback"}
          /\ distance_info.source = "google_maps" => (maps_key /\ BothStatusesOK))

C17_Witness ==
    /\ pc = "distance_done"
    /\ maps_key
    /\ maps_reply.http = "ok"
    /\ maps_reply.status = "OK"
    /\ maps_reply.has_element
    /\ maps_reply.element_status = "ZERO_RESULTS"
    /\ maps_reply.has_distance
    /\ maps_reply.has_duration
    /\ distance_info.source = "fallback"
    /\ distance_info.distance_miles = 2000

(***************************************************************************)
(* analyze_room_with_claude(image_url)                                     *)
(* What a photo brings is its outcome: the download raises ("fetch"), the  *)
(* vision call raises ("vision"), or the call returns a text.              *)
(***************************************************************************)
EmptyResult == [items |-> <<>>, total_volume_ft3 |-> 0]

\* the loop over the lines, lines 556-581
RECURSIVE parse_lines(_, _)
parse_lines(acc, ls) ==
    IF ls = <<>> THEN acc
    ELSE LET p == parse_line(Head(ls))
         IN  parse_lines(IF p.skipped THEN acc
                         ELSE [items |-> Append(acc.items, p.item),
                               total_volume_ft3 |-> acc.total_volume_ft3 + p.item_volume],
                         Tail(ls))

parse_response(text) == parse_lines(EmptyResult, Split(text, "\n"))

Sofa == <<"s", "o", "f", "a">>

\* "- sofa (1000...0)", the quantity a 1 followed by 308 zeros
HugeQuantityResponse ==
    <<"-", " ">> \o Sofa \o <<" ", "(", "1">> \o [i \in 1..308 |-> "0"] \o <<")">>

\* what the parser makes of it: int() gives 10^308, 50.0 * 10^308 is inf,
\* and round(inf, 2) is inf
HugeQuantityResult ==
    [items |-> <<[label |-> Sofa, quantity |-> HUGE_QUANTITY, volume_ft3 |-> FLOAT_INF]>>,
     total_volume_ft3 |-> FLOAT_INF]

\* variant: a failing photo counts as 30 ft3 of unseen items
analyze_room_with_claude_Counted(client, outcome) ==
    IF ~client THEN EmptyResult
    ELSE IF outcome.kind \in {"fetch", "vision"}
    THEN [items |-> <<>>, total_volume_ft3 |-> 3000]
    ELSE IF outcome.text = HugeQuantityResponse THEN HugeQuantityResult
    ELSE parse_response(outcome.text)

analyze_room_with_claude(client, outcome) ==
    IF ~client THEN EmptyResult
    \* download_image_as_base64 or client.messages.create raises: the except clause
    ELSE IF outcome.kind \in {"fetch", "vision"} THEN EmptyResult
    ELSE IF outcome.text = HugeQuantityResponse THEN HugeQuantityResult
    ELSE parse_response(outcome.text)

(***************************************************************************)
(* analyze_quote: the conversions of step 3, and is_weekend_today          *)
(***************************************************************************)
\* round(total_volume_ft3 * FT3_TO_M3, 2): FT3_TO_M3 = 0.0283168 = 8849 / 312500
cubic_metres(ft3) ==
    IF IsFinite(ft3) THEN PyRound(ft3 * 8849, 312500) ELSE {FLOAT_INF}

\* round(total_volume_m3 * 1.3, 2)
floor_area(m3) ==
    IF IsFinite(m3) THEN PyRound(m3 * 13, 10) ELSE {FLOAT_INF}

\* variant: Friday counts as the weekend
is_weekend_today_Friday(date) == date.weekday >= 4

is_weekend_today(date) == date.weekday >= 5

\* math.ceil(total_volume_m3 / LUTON_VAN_CAPACITY_M3) of a volume above the
\* Luton capacity raises OverflowError when the volume is inf
van_count_raises(volume) == ~IsFinite(volume)

\* the description: the values the f-string puts into the text;
\* {total_volume_m3:.1f} is the volume to one decimal
quote_description(n_photos, its, volume, van_text, crew, miles, duration, hours, wk) ==
    {[photos |-> n_photos,
      item_types |-> Len(its),
      volume_m3 |-> v,
      van_description |-> van_text,
      movers |-> crew,
      distance_miles |-> miles,
      duration_text |-> duration,
      job_hours |-> hours,
      weekend_note |-> IF wk THEN " Weekend rates apply (+15%)." ELSE ""] :
        v \in PyRound(volume, 10)}

(***************************************************************************)
(* analyze_quote(req): the request pipeline, one action per step           *)
(***************************************************************************)
QuoteResponses ==
    {<<"-", " ">> \o Sofa \o <<" ", "(", "2", ")">>,
     SpecExampleResponse,
     <<"N", "o", " ", "f", "u", "r", "n", "i", "t", "u", "r", "e", ".">>,
     HugeQuantityResponse}

PhotoOutcomes ==
    {[kind |-> k, text |-> <<>>] : k \in {"fetch", "vision"}}
    \cup {[kind |-> "text", text |-> t] : t \in QuoteResponses}

QuoteMapsReplies ==
    {[http |-> "timeout"]}
    \cup {[http |-> "ok", status |-> "OK", has_element |-> TRUE, element_status |-> es,
           has_distance |-> TRUE, meters |-> 12345, has_duration |-> TRUE,
           seconds |-> 1800, duration_text |-> "30 mins"] : es \in {"OK", "ZERO_RESULTS"}}

\* the days of the first reading of the clock: a Friday in June, a Sunday
\* in December
QuoteDates == {[weekday |-> 4, month |-> 6], [weekday |-> 6, month |-> 12]}

\* the second reading is of the same day, or of the next when midnight falls
\* between the two: the next weekday, in the same month or, at the end of the
\* month, in the next
LaterDates(d) ==
    {d,
     [weekday |-> (d.weekday + 1) % 7, month |-> d.month],
     [weekday |-> (d.weekday + 1) % 7, month |-> (d.month % 12) + 1]}

\* model.predict raises, or predicts 100, 400 or 2000 pounds
PredictOutcomes ==
    {[raises |-> TRUE, value |-> 0]}
    \cup {[raises |-> FALSE, value |-> v] : v \in {1000000, 4000000, 20000000}}

InitQuote ==
    /\ pc = "q_distance"
    /\ maps_key \in BOOLEAN
    /\ maps_reply \in QuoteMapsReplies
    /\ vision_client \in BOOLEAN
    /\ photos \in UNION {[1..n -> PhotoOutcomes] : n \in 0..MaxQuotePhotos}
    /\ distance_info = NoDistance
    /\ today = NoDate
    /\ prediction = NoPrediction
    /\ total_area_m2 = 0
    /\ quote = NoQuote
    /\ total_volume_m3 = 0
    /\ van_count = 0
    /\ movers = 0
    /\ HybridIdle
    /\ RuleIdle
    /\ VanIdle
    /\ ParseIdle
    /\ RequestIdle
    /\ EstimateIdle
    /\ FeatureIdle
    /\ ConcurrentIdle
    /\ CallsIdle

\* step 1, up to requests.get: without a key get_google_maps_distance
\* returns the fallback at once; with a key it sends the request and waits
QuoteDistance ==
    /\ pc = "q_distance"
    /\ IF maps_key
       THEN /\ external_calls' = external_calls \o maps_call
            /\ pc' = "q_distance_wait"
            /\ UNCHANGED <<distance_info, distance_km, distance_miles>>
       ELSE /\ \E info \in get_google_maps_distance(maps_key, maps_reply) :
                  /\ distance_info' = info
                  /\ distance_km' = info.distance_km
                  /\ distance_miles' = info.distance_miles
            /\ pc' = "q_photos"
            /\ UNCHANGED external_calls
    /\ UNCHANGED <<maps_key, maps_reply, now, features, total_volume_m3, van_count, movers,
                   weekend, stairs_flights, rule_price_info, hybridVars, vanVars,
                   parseVars, requestVars, estimateVars, quoteVars, concurrentVars>>

\* step 1, from the return of requests.get
QuoteDistanceReply ==
    /\ pc = "q_distance_wait"
    /\ \E info \in get_google_maps_distance(maps_key, maps_reply) :
          /\ distance_info' = info
          /\ distance_km' = info.distance_km
          /\ distance_miles' = info.distance_miles
    /\ pc' = "q_photos"
    /\ UNCHANGED <<maps_key, maps_reply, now, features, total_volume_m3, van_count, movers,
                   weekend, stairs_flights, rule_price_info, hybridVars, vanVars,
                   parseVars, requestVars, estimateVars, quoteVars, concurrentVars,
                   callVars>>

\* step 2, a pass of the loop over the photo URLs up to the download:
\* without a client analyze_room_with_claude returns at once; with one it
\* sends the request for the image and waits
QuotePhoto ==
    /\ pc = "q_photos"
    /\ Len(all_results) < Len(photos)
    /\ IF vision_client
       THEN /\ external_calls' = external_calls \o download_call(Len(all_results) + 1)
            /\ pc' = "q_download_wait"
            /\ UNCHANGED all_results
       ELSE /\ all_results' =
                  Append(all_results,
                         analyze_room_with_claude(vision_client,
                                                  photos[Len(all_results) + 1]))
            /\ UNCHANGED <<pc, external_calls>>
    /\ UNCHANGED <<quote_items, quote_volume_ft3, hybridVars, ruleVars, vanVars,
                   parseVars, estimateVars, featureVars, distanceVars, quoteVars,
                   concurrentVars>>

\* step 2, from the return of the download: when it raised the pass ends
\* with the empty result; otherwise the image is sent to the vision service
QuotePhotoDownloaded ==
    /\ pc = "q_download_wait"
    /\ IF photos[Len(all_results) + 1].kind = "fetch"
       THEN /\ all_results' =
                  Append(all_results,
                         analyze_room_with_claude(vision_client,
                                                  photos[Len(all_results) + 1]))
            /\ pc' = "q_photos"
            /\ UNCHANGED external_calls
       ELSE /\ external_calls' = external_calls \o vision_call(Len(all_results) + 1)
            /\ pc' = "q_vision_wait"
            /\ UNCHANGED all_results
    /\ UNCHANGED <<quote_items, quote_volume_ft3, hybridVars, ruleVars, vanVars,
                   parseVars, estimateVars, featureVars, distanceVars, quoteVars,
                   concurrentVars>>

\* step 2, inside client.messages.create: an attempt has failed and the
\* client sends the request again
QuotePhotoResend ==
    /\ pc = "q_vision_wait"
    /\ MayResend(external_calls, Len(all_results) + 1)
    /\ external_calls' = external_calls \o vision_call(Len(all_results) + 1)
    /\ UNCHANGED <<pc, hybridVars, ruleVars, vanVars, parseVars, requestVars, estimateVars,
                   featureVars, distanceVars, quoteVars, concurrentVars>>

\* step 2, from the return of client.messages.create to the end of the pass
QuotePhotoAnalysed ==
    /\ pc = "q_vision_wait"
    /\ all_results' =
          Append(all_results,
                 analyze_room_with_claude(vision_client, photos[Len(all_results) + 1]))
    /\ pc' = "q_photos"
    /\ UNCHANGED <<quote_items, quote_volume_ft3, hybridVars, ruleVars, vanVars,
                   parseVars, estimateVars, featureVars, distanceVars, quoteVars,
                   concurrentVars, callVars>>

\* step 3
QuoteAggregate ==
    /\ pc = "q_photos"
    /\ Len(all_results) = Len(photos)
    /\ LET r == aggregate_items_and_volume(all_results)
       IN  /\ quote_items' = r.items
           /\ quote_volume_ft3' = r.total_volume_ft3
           /\ \E m3 \in cubic_metres(r.total_volume_ft3) :
                 /\ total_volume_m3' = m3
                 /\ total_area_m2' \in floor_area(m3)
    /\ pc' = "q_vans"
    /\ UNCHANGED <<all_results, distance_miles, van_count, movers, weekend, stairs_flights,
                   rule_price_info, photos, vision_client, today, prediction, quote,
                   hybridVars, vanVars, parseVars, estimateVars, featureVars,
                   distanceVars, concurrentVars, callVars>>

\* step 4
QuoteVans ==
    /\ pc = "q_vans"
    /\ ~van_count_raises(total_volume_m3)
    /\ \E info \in calculate_van_count(total_volume_m3) :
          /\ van_info' = info
          /\ van_count' = info.van_count
          /\ movers' = calculate_movers(info.van_count, total_volume_m3)
    /\ pc' = "q_weekend"
    /\ UNCHANGED <<total_volume_m3, distance_miles, weekend, stairs_flights,
                   rule_price_info, hybridVars, parseVars, requestVars, estimateVars,
                   featureVars, distanceVars, quoteVars, concurrentVars, callVars>>

\* step 4 raises: the exception leaves analyze_quote
QuoteVansRaise ==
    /\ pc = "q_vans"
    /\ van_count_raises(total_volume_m3)
    /\ pc' = "quote_raised"
    /\ UNCHANGED <<hybridVars, ruleVars, vanVars, parseVars, requestVars, estimateVars,
                   featureVars, distanceVars, quoteVars, concurrentVars, callVars>>

\* step 5: the first reading of the clock
QuoteWeekend ==
    /\ pc = "q_weekend"
    /\ \E d \in QuoteDates :
          /\ today' = d
          /\ weekend' = is_weekend_today(d)
    /\ pc' = "q_rule"
    /\ UNCHANGED <<total_volume_m3, distance_miles, van_count, movers, stairs_flights,
                   rule_price_info, photos, vision_client, prediction, total_area_m2,
                   quote, hybridVars, vanVars, parseVars, requestVars, estimateVars,
                   featureVars, distanceVars, concurrentVars, callVars>>

\* step 6, with stairs_flights = 0
QuoteRule ==
    /\ pc = "q_rule"
    /\ \E info \in calculate_rule_based_price(total_volume_m3, distance_miles, van_count,
                                              movers, weekend, 0) :
          /\ rule_price_info' = info
          /\ rule_price' = info.total
    /\ pc' = "q_features"
    /\ UNCHANGED <<total_volume_m3, distance_miles, van_count, movers, weekend,
                   stairs_flights, ml_price, estimate, pricing_method, vanVars,
                   parseVars, requestVars, estimateVars, featureVars, distanceVars,
                   quoteVars, concurrentVars, callVars>>

\* step 7, build_features_for_price_model: the second reading of the clock
QuoteFeatures ==
    /\ pc = "q_features"
    /\ \E d \in LaterDates(today) :
          /\ now' = d
          /\ features' = build_features_for_price_model(total_volume_m3, distance_km, d)
    /\ pc' = "q_predict"
    /\ UNCHANGED <<distance_km, hybridVars, ruleVars, vanVars, parseVars, requestVars,
                   estimateVars, distanceVars, quoteVars, concurrentVars, callVars>>

\* step 7, model.predict: a raised exception leaves ml_price = 0.0
QuotePredict ==
    /\ pc = "q_predict"
    /\ \E p \in PredictOutcomes :
          /\ prediction' = p
          /\ ml_price' = IF p.raises THEN 0 ELSE p.value
    /\ pc' = "q_hybrid"
    /\ UNCHANGED <<rule_price, estimate, pricing_method, photos, vision_client, today,
                   total_area_m2, quote, ruleVars, vanVars, parseVars, requestVars,
                   estimateVars, featureVars, distanceVars, concurrentVars, callVars>>

\* step 8
QuoteHybrid ==
    /\ pc = "q_hybrid"
    /\ \E h \in calculate_hybrid_price(ml_price, rule_price) :
          /\ estimate' = h.price
          /\ pricing_method' = h.method
    /\ pc' = "q_respond"
    /\ UNCHANGED <<ml_price, rule_price, ruleVars, vanVars, parseVars, requestVars,
                   estimateVars, featureVars, distanceVars, quoteVars, concurrentVars,
                   callVars>>

\* step 9 and the return
QuoteRespond ==
    /\ pc = "q_respond"
    /\ \E description \in quote_description(Len(photos), quote_items, total_volume_m3,
                                            van_info.van_description, movers,
                                            distance_miles, distance_info.duration_text,
                                            rule_price_info.job_hours, weekend) :
          quote' = [estimate |-> estimate,
                    description |-> description,
                    items |-> quote_items,
                    totalVolumeM3 |-> total_volume_m3,
                    totalAreaM2 |-> total_area_m2,
                    distance_miles |-> distance_miles,
                    duration_text |-> distance_info.duration_text,
                    van_count |-> van_count,
                    van_description |-> van_info.van_description,
                    recommended_movers |-> movers,
                    is_weekend |-> weekend,
                    pricing_method |-> pricing_method]
    /\ pc' = "quote_returned"
    /\ UNCHANGED <<photos, vision_client, today, prediction, total_area_m2, hybridVars,
                   ruleVars, vanVars, parseVars, requestVars, estimateVars, featureVars,
                   distanceVars, concurrentVars, callVars>>

NextQuote ==
    \/ QuoteDistance
    \/ QuoteDistanceReply
    \/ QuotePhoto
    \/ QuotePhotoDownloaded
    \/ QuotePhotoResend
    \/ QuotePhotoAnalysed
    \/ QuoteAggregate
    \/ QuoteVans
    \/ QuoteVansRaise
    \/ QuoteWeekend
    \/ QuoteRule
    \/ QuoteFeatures
    \/ QuotePredict
    \/ QuoteHybrid
    \/ QuoteRespond

SpecQuote == InitQuote /\ [][NextQuote]_vars

(***************************************************************************)
(* Claims about analyze_quote                                              *)
(***************************************************************************)
PhotoFails(i) == photos[i].kind \in {"fetch", "vision"}

\* the results of the photos that do not fail, in order
RECURSIVE GoodResults(_)
GoodResults(i) ==
    IF i > Len(photos) THEN <<>>
    ELSE (IF PhotoFails(i) THEN <<>>
          ELSE <<analyze_room_with_claude(vision_client, photos[i])>>)
         \o GoodResults(i + 1)

\* the positions of steps 1 and 2
BeforeAggregate ==
    {"q_distance", "q_distance_wait", "q_photos", "q_download_wait", "q_vision_wait"}

PhotosDone == pc \notin BeforeAggregate

\* C16: a photo whose download, decoding or vision call fails contributes
\* the result {items: [], total_volume_ft3: 0.0}; every other photo is still
\* analysed; the aggregated items and total are those of the photos that did
\* not fail alone; and the request is not aborted on account of it (it is
\* aborted only by the result of a photo that did not fail).
C16_FailureIsolation ==
    /\ \A i \in 1..Len(all_results) :
          PhotoFails(i) => all_results[i] = [items |-> <<>>, total_volume_ft3 |-> 0]
    /\ PhotosDone =>
          /\ Len(all_results) = Len(photos)
          /\ \A i \in 1..Len(photos) :
                ~PhotoFails(i) =>
                    all_results[i] = analyze_room_with_claude(vision_client, photos[i])
    /\ pc \notin BeforeAggregate \cup {"quote_raised"} =>
          /\ quote_items = aggregate_items_and_volume(GoodResults(1)).items
          /\ quote_volume_ft3 = aggregate_items_and_volume(GoodResults(1)).total_volume_ft3
    /\ pc = "quote_returned" =>
          /\ quote.items = aggregate_items_and_volume(GoodResults(1)).items
          /\ quote.totalVolumeM3 \in
                cubic_metres(aggregate_items_and_volume(GoodResults(1)).total_volume_ft3)
    /\ pc = "quote_raised" =>
          \E i \in 1..Len(photos) : ~PhotoFails(i) /\ ~IsFinite(all_results[i].total_volume_ft3)

C16_Witness ==
    /\ pc = "quote_returned"
    /\ vision_client
    /\ Len(photos) = 2
    /\ photos[1].kind = "fetch"
    /\ photos[2] = [kind |-> "text", text |-> SpecExampleResponse]
    /\ all_results[1] = EmptyResult
    /\ quote_volume_ft3 = 15000
    /\ Len(quote.items) = 2

\* C18: when model.predict raises, the error is caught, ml_price is 0, and
\* the returned quote has pricing_method "rule_based" and the rule-based
\* total of the request as its estimate.
C18_PredictFailure ==
    /\ (pc \in {"q_hybrid", "q_respond", "quote_returned"} /\ prediction.raises) =>
          ml_price = 0
    /\ (pc = "quote_returned" /\ prediction.raises) =>
          /\ quote.pricing_method = "rule_based"
          /\ quote.estimate = rule_price_info.total

C18_Witness ==
    /\ pc = "quote_returned"
    /\ prediction.raises
    /\ weekend
    /\ quote.pricing_method = "rule_based"
    /\ quote.estimate = rule_price_info.total
    /\ quote.estimate > 20000

\* C19: every request runs to completion and returns a Quote, whatever the
\* vision, distance and regression-model calls do: no exception leaves
\* analyze_quote; and the Quote's pricing_method is one of "model",
\* "rule_based" and "hybrid".
C19_Original ==
    /\ pc # "quote_raised"
    /\ pc = "quote_returned" => quote.pricing_method \in {"model", "rule_based", "hybrid"}

\* C20 as stated: the Quote does not depend on the day the request is
\* processed: its is_weekend is what any other day would give.
C20_Original ==
    pc = "quote_returned" =>
        \A d \in QuoteDates : is_weekend_today(d) = quote.is_weekend

\* C20: the Quote is a function of the request, the vision responses, the
\* distance response, the model's prediction and the two readings of the
\* clock: is_weekend is whether the first reading is a Saturday or Sunday,
\* the features carry the weekday and month of the second, and every other
\* field follows from these through the steps of the pipeline.
C20_FunctionOfInputsAndClock ==
    pc = "quote_returned" =>
        /\ quote.is_weekend = (today.weekday \in {5, 6})
        /\ features[1][5] = now.weekday + 1
        /\ features[1][6] = now.month
        /\ \E info \in get_google_maps_distance(maps_key, maps_reply) :
              /\ quote.distance_miles = info.distance_miles
              /\ quote.duration_text = info.duration_text
              /\ features[1][1] = info.distance_km
        /\ LET results == [i \in 1..Len(photos) |->
                             analyze_room_with_claude(vision_client, photos[i])]
               agg == aggregate_items_and_volume(results)
           IN  /\ quote.items = agg.items
               /\ quote.totalVolumeM3 \in cubic_metres(agg.total_volume_ft3)
        /\ quote.totalAreaM2 \in floor_area(quote.totalVolumeM3)
        /\ \E info \in calculate_van_count(quote.totalVolumeM3) :
              /\ quote.van_count = info.van_count
              /\ quote.van_description = info.van_description
        /\ quote.recommended_movers = calculate_movers(quote.van_count, quote.totalVolumeM3)
        /\ \E info \in calculate_rule_based_price(quote.totalVolumeM3, quote.distance_miles,
                                                  quote.van_count, quote.recommended_movers,
                                                  quote.is_weekend, 0) :
              /\ [price |-> quote.estimate, method |-> quote.pricing_method] \in
                    calculate_hybrid_price(IF prediction.raises THEN 0 ELSE prediction.value,
                                           info.total)
              /\ quote.description.job_hours = info.job_hours

C20_Witness ==
    /\ pc = "quote_returned"
    /\ today = [weekday |-> 6, month |-> 12]
    /\ now = [weekday |-> 0, month |-> 1]
    /\ quote.is_weekend
    /\ features[1][5] = 1
    /\ features[1][6] = 1

(***************************************************************************)
(* Concurrent requests.  analyze_quote is a plain def, so the server runs  *)
(* each request in its own thread: every call has its own frame of locals, *)
(* and the module-level model, client and GOOGLE_MAPS_API_KEY are set at   *)
(* import and read by every call.  A frame carries the request with what   *)
(* its external calls bring (the photos' outcomes, the Maps reply, the two *)
(* readings of the clock) and the locals of analyze_quote.                 *)
(***************************************************************************)
\* the artifact joblib.load returns: predict raises, or gives
\* base + per_km * distance_km  (1/10000 pound; distance_km in tenths)
ModelArtifacts ==
    {[loaded |-> TRUE, raises |-> TRUE, base |-> 0, per_km |-> 0],
     [loaded |-> TRUE, raises |-> FALSE, base |-> 4000000, per_km |-> 1000]}

\* model.predict(features)[0]
predict(mdl, row) ==
    IF mdl.raises THEN [raises |-> TRUE, value |-> 0]
    ELSE [raises |-> FALSE, value |-> mdl.base + mdl.per_km * row[1][1]]

\* variant: predict refits the model on the row it was given
model_after_predict_Refit(mdl, row) ==
    IF mdl.raises THEN mdl ELSE [mdl EXCEPT !.base = @ + 2000000 + row[1][1]]

\* predict reads the model and leaves it as it is
model_after_predict(mdl, row) == mdl

Friday == [weekday |-> 4, month |-> 6]

Sunday == [weekday |-> 6, month |-> 12]

ConcRequests ==
    {[photos |-> <<[kind |-> "text", text |-> <<"-", " ">> \o Sofa \o <<" ", "(", "2", ")">>],
                   [kind |-> "fetch", text |-> <<>>]>>,
      maps_reply |-> [http |-> "ok", status |-> "OK", has_element |-> TRUE,
                      element_status |-> "OK", has_distance |-> TRUE, meters |-> 12345,
                      has_duration |-> TRUE, seconds |-> 1800, duration_text |-> "30 mins"],
      clock |-> <<Friday, Friday>>],
     [photos |-> <<>>,
      maps_reply |-> [http |-> "timeout"],
      clock |-> <<Sunday, [weekday |-> 0, month |-> 1]>>],
     [photos |-> <<[kind |-> "text", text |-> HugeQuantityResponse]>>,
      maps_reply |-> [http |-> "timeout"],
      clock |-> <<Friday, Friday>>]}

\* the frame at the entry of analyze_quote
NewCall(req) ==
    [pc |-> "q_distance",
     req |-> req,
     external_calls |-> <<>>,
     distance_info |-> NoDistance,
     all_results |-> <<>>,
     items |-> <<>>,
     total_volume_m3 |-> 0,
     total_area_m2 |-> 0,
     van_info |-> [van_count |-> 0],
     movers |-> 0,
     weekend |-> FALSE,
     rule_price_info |-> [total |-> 0],
     features |-> <<>>,
     ml_price |-> 0,
     estimate |-> 0,
     pricing_method |-> "none",
     quote |-> NoQuote]

InitConcurrent ==
    /\ pc = "startup"
    /\ model = NoModel
    /\ maps_key \in BOOLEAN
    /\ vision_client \in BOOLEAN
    /\ calls \in [1..MaxRequests -> {NewCall(req) : req \in ConcRequests}]
    /\ maps_reply = NoReply
    /\ distance_info = NoDistance
    /\ photos = <<>>
    /\ today = NoDate
    /\ prediction = NoPrediction
    /\ total_area_m2 = 0
    /\ quote = NoQuote
    /\ total_volume_m3 = 0
    /\ van_count = 0
    /\ movers = 0
    /\ HybridIdle
    /\ RuleIdle
    /\ VanIdle
    /\ ParseIdle
    /\ RequestIdle
    /\ EstimateIdle
    /\ FeatureIdle
    /\ CallsIdle

\* model = joblib.load(MODEL_PATH)
LoadModel ==
    /\ pc = "startup"
    /\ model' \in ModelArtifacts
    /\ pc' = "serving"
    /\ UNCHANGED <<calls, hybridVars, ruleVars, vanVars, parseVars, requestVars,
                   estimateVars, featureVars, distanceVars, quoteVars, callVars>>

\* joblib.load raises: the exception is raised again and the import fails
LoadModelFails ==
    /\ pc = "startup"
    /\ pc' = "exited"
    /\ UNCHANGED <<calls, model, hybridVars, ruleVars, vanVars, parseVars, requestVars,
                   estimateVars, featureVars, distanceVars, quoteVars, callVars>>

\* request r is at position p of analyze_quote
At(r, p) == pc = "serving" /\ calls[r].pc = p

\* step 1, up to requests.get
CallDistance(r) ==
    /\ At(r, "q_distance")
    /\ IF maps_key
       THEN calls' = [calls EXCEPT ![r].external_calls = @ \o maps_call,
                                  ![r].pc = "q_distance_wait"]
       ELSE \E info \in get_google_maps_distance(maps_key, calls[r].req.maps_reply) :
               calls' = [calls EXCEPT ![r].distance_info = info, ![r].pc = "q_photos"]
    /\ UNCHANGED <<pc, model, hybridVars, ruleVars, vanVars, parseVars, requestVars,
                   estimateVars, featureVars, distanceVars, quoteVars, callVars>>

\* step 1, from the return of requests.get
CallDistanceReply(r) ==
    /\ At(r, "q_distance_wait")
    /\ \E info \in get_google_maps_distance(maps_key, calls[r].req.maps_reply) :
          calls' = [calls EXCEPT ![r].distance_info = info, ![r].pc = "q_photos"]
    /\ UNCHANGED <<pc, model, hybridVars, ruleVars, vanVars, parseVars, requestVars,
                   estimateVars, featureVars, distanceVars, quoteVars, callVars>>

\* the outcome of the photo of the pass that request r is in
CallOutcome(r) == calls[r].req.photos[Len(calls[r].all_results) + 1]

\* step 2, a pass of the loop up to the download
CallPhoto(r) ==
    /\ At(r, "q_photos")
    /\ Len(calls[r].all_results) < Len(calls[r].req.photos)
    /\ IF vision_client
       THEN calls' = [calls EXCEPT
                        ![r].external_calls = @ \o download_call(Len(calls[r].all_results) + 1),
                        ![r].pc = "q_download_wait"]
       ELSE calls' = [calls EXCEPT
                        ![r].all_results =
                            Append(@, analyze_room_with_claude(vision_client, CallOutcome(r)))]
    /\ UNCHANGED <<pc, model, hybridVars, ruleVars, vanVars, parseVars, requestVars,
                   estimateVars, featureVars, distanceVars, quoteVars, callVars>>

\* step 2, from the return of the download
CallPhotoDownloaded(r) ==
    /\ At(r, "q_download_wait")
    /\ IF CallOutcome(r).kind = "fetch"
       THEN calls' = [calls EXCEPT
                        ![r].all_results =
                            Append(@, analyze_room_with_claude(vision_client, CallOutcome(r))),
                        ![r].pc = "q_photos"]
       ELSE calls' = [calls EXCEPT
                        ![r].external_calls = @ \o vision_call(Len(calls[r].all_results) + 1),
                        ![r].pc = "q_vision_wait"]
    /\ UNCHANGED <<pc, model, hybridVars, ruleVars, vanVars, parseVars, requestVars,
                   estimateVars, featureVars, distanceVars, quoteVars, callVars>>

\* step 2, inside client.messages.create: the client sends the request again
CallPhotoResend(r) ==
    /\ At(r, "q_vision_wait")
    /\ MayResend(calls[r].external_calls, Len(calls[r].all_results) + 1)
    /\ calls' = [calls EXCEPT
                    ![r].external_calls = @ \o vision_call(Len(calls[r].all_results) + 1)]
    /\ UNCHANGED <<pc, model, hybridVars, ruleVars, vanVars, parseVars, requestVars,
                   estimateVars, featureVars, distanceVars, quoteVars, callVars>>

\* step 2, from the return of client.messages.create to the end of the pass
CallPhotoAnalysed(r) ==
    /\ At(r, "q_vision_wait")
    /\ calls' = [calls EXCEPT
                    ![r].all_results =
                        Append(@, analyze_room_with_claude(vision_client, CallOutcome(r))),
                    ![r].pc = "q_photos"]
    /\ UNCHANGED <<pc, model, hybridVars, ruleVars, vanVars, parseVars, requestVars,
                   estimateVars, featureVars, distanceVars, quoteVars, callVars>>

\* step 3
CallAggregate(r) ==
    /\ At(r, "q_photos")
    /\ Len(calls[r].all_results) = Len(calls[r].req.photos)
    /\ LET agg == aggregate_items_and_volume(calls[r].all_results)
       IN  \E m3 \in cubic_metres(agg.total_volume_ft3) :
           \E m2 \in floor_area(m3) :
              calls' = [calls EXCEPT ![r].items = agg.items,
                                     ![r].total_volume_m3 = m3,
                                     ![r].total_area_m2 = m2,
                                     ![r].pc = "q_vans"]
    /\ UNCHANGED <<pc, model, hybridVars, ruleVars, vanVars, parseVars, requestVars,
                   estimateVars, featureVars, distanceVars, quoteVars, callVars>>

\* step 4
CallVans(r) ==
    /\ At(r, "q_vans")
    /\ ~van_count_raises(calls[r].total_volume_m3)
    /\ \E info \in calculate_van_count(calls[r].total_volume_m3) :
          calls' = [calls EXCEPT
                       ![r].van_info = info,
                       ![r].movers = calculate_movers(info.van_count,
                                                      calls[r].total_volume_m3),
                       ![r].pc = "q_weekend"]
    /\ UNCHANGED <<pc, model, hybridVars, ruleVars, vanVars, parseVars, requestVars,
                   estimateVars, featureVars, distanceVars, quoteVars, callVars>>

\* step 4 raises: the exception ends this request, and only this one
CallVansRaise(r) ==
    /\ At(r, "q_vans")
    /\ van_count_raises(calls[r].total_volume_m3)
    /\ calls' = [calls EXCEPT ![r].pc = "quote_raised"]
    /\ UNCHANGED <<pc, model, hybridVars, ruleVars, vanVars, parseVars, requestVars,
                   estimateVars, featureVars, distanceVars, quoteVars, callVars>>

\* step 5
CallWeekend(r) ==
    /\ At(r, "q_weekend")
    /\ calls' = [calls EXCEPT ![r].weekend = is_weekend_today(calls[r].req.clock[1]),
                              ![r].pc = "q_rule"]
    /\ UNCHANGED <<pc, model, hybridVars, ruleVars, vanVars, parseVars, requestVars,
                   estimateVars, featureVars, distanceVars, quoteVars, callVars>>

\* step 6
CallRule(r) ==
    /\ At(r, "q_rule")
    /\ \E info \in calculate_rule_based_price(calls[r].total_volume_m3,
                                              calls[r].distance_info.distance_miles,
                                              calls[r].van_info.van_count,
                                              calls[r].movers, calls[r].weekend, 0) :
          calls' = [calls EXCEPT ![r].rule_price_info = info, ![r].pc = "q_features"]
    /\ UNCHANGED <<pc, model, hybridVars, ruleVars, vanVars, parseVars, requestVars,
                   estimateVars, featureVars, distanceVars, quoteVars, callVars>>

\* step 7, build_features_for_price_model
CallFeatures(r) ==
    /\ At(r, "q_features")
    /\ calls' = [calls EXCEPT
                    ![r].features =
                        build_features_for_price_model(calls[r].total_volume_m3,
                                                       calls[r].distance_info.distance_km,
                                                       calls[r].req.clock[2]),
                    ![r].pc = "q_predict"]
    /\ UNCHANGED <<pc, model, hybridVars, ruleVars, vanVars, parseVars, requestVars,
                   estimateVars, featureVars, distanceVars, quoteVars, callVars>>

\* step 7, model.predict on the shared model
CallPredict(r) ==
    /\ At(r, "q_predict")
    /\ LET p == predict(model, calls[r].features)
       IN  calls' = [calls EXCEPT ![r].ml_price = IF p.raises THEN 0 ELSE p.value,
                                  ![r].pc = "q_hybrid"]
    /\ model' = model_after_predict(model, calls[r].features)
    /\ UNCHANGED <<pc, hybridVars, ruleVars, vanVars, parseVars, requestVars,
                   estimateVars, featureVars, distanceVars, quoteVars, callVars>>

\* step 8
CallHybrid(r) ==
    /\ At(r, "q_hybrid")
    /\ \E h \in calculate_hybrid_price(calls[r].ml_price, calls[r].rule_price_info.total) :
          calls' = [calls EXCEPT ![r].estimate = h.price,
                                 ![r].pricing_method = h.method,
                                 ![r].pc = "q_respond"]
    /\ UNCHANGED <<pc, model, hybridVars, ruleVars, vanVars, parseVars, requestVars,
                   estimateVars, featureVars, distanceVars, quoteVars, callVars>>

\* step 9 and the return
CallRespond(r) ==
    /\ At(r, "q_respond")
    /\ LET f == calls[r]
       IN  \E description \in quote_description(Len(f.req.photos), f.items,
                                                f.total_volume_m3,
                                                f.van_info.van_description, f.movers,
                                                f.distance_info.distance_miles,
                                                f.distance_info.duration_text,
                                                f.rule_price_info.job_hours, f.weekend) :
              calls' = [calls EXCEPT
                           ![r].quote =
                               [estimate |-> f.estimate,
                                description |-> description,
                                items |-> f.items,
                                totalVolumeM3 |-> f.total_volume_m3,
                                totalAreaM2 |-> f.total_area_m2,
                                distance_miles |-> f.distance_info.distance_miles,
                                duration_text |-> f.distance_info.duration_text,
                                van_count |-> f.van_info.van_count,
                                van_description |-> f.van_info.van_description,
                                recommended_movers |-> f.movers,
                                is_weekend |-> f.weekend,
                                pricing_method |-> f.pricing_method],
                           ![r].pc = "quote_returned"]
    /\ UNCHANGED <<pc, model, hybridVars, ruleVars, vanVars, parseVars, requestVars,
                   estimateVars, featureVars, distanceVars, quoteVars, callVars>>

NextConcurrent ==
    \/ LoadModel
    \/ LoadModelFails
    \/ \E r \in 1..MaxRequests : CallDistance(r)
    \/ \E r \in 1..MaxRequests : CallDistanceReply(r)
    \/ \E r \in 1..MaxRequests : CallPhoto(r)
    \/ \E r \in 1..MaxRequests : CallPhotoDownloaded(r)
    \/ \E r \in 1..MaxRequests : CallPhotoResend(r)
    \/ \E r \in 1..MaxRequests : CallPhotoAnalysed(r)
    \/ \E r \in 1..MaxRequests : CallAggregate(r)
    \/ \E r \in 1..MaxRequests : CallVans(r)
    \/ \E r \in 1..MaxRequests : CallVansRaise(r)
    \/ \E r \in 1..MaxRequests : CallWeekend(r)
    \/ \E r \in 1..MaxRequests : CallRule(r)
    \/ \E r \in 1..MaxRequests : CallFeatures(r)
    \/ \E r \in 1..MaxRequests : CallPredict(r)
    \/ \E r \in 1..MaxRequests : CallHybrid(r)
    \/ \E r \in 1..MaxRequests : CallRespond(r)

SpecConcurrent == InitConcurrent /\ [][NextConcurrent]_vars

(***************************************************************************)
(* Claims about concurrent requests                                        *)
(***************************************************************************)
\* q is a Quote that analyze_quote returns for req when it runs alone, with
\* the module-level key, client and model as they are now
QuoteAlone(q, req) ==
    LET results == [i \in 1..Len(req.photos) |->
                       analyze_room_with_claude(vision_client, req.photos[i])]
        agg == aggregate_items_and_volume(results)
        wk == is_weekend_today(req.clock[1])
    IN  \E info \in get_google_maps_distance(maps_key, req.maps_reply) :
        \E m3 \in cubic_metres(agg.total_volume_ft3) :
           /\ ~van_count_raises(m3)
           /\ \E m2 \in floor_area(m3) :
              \E van \in calculate_van_count(m3) :
              \E rule \in calculate_rule_based_price(
                              m3, info.distance_miles, van.van_count,
                              calculate_movers(van.van_count, m3), wk, 0) :
                 LET row == build_features_for_price_model(m3, info.distance_km,
                                                           req.clock[2])
                     p == predict(model, row)
                 IN  \E h \in calculate_hybrid_price(IF p.raises THEN 0 ELSE p.value,
                                                     rule.total) :
                     \E description \in quote_description(
                                            Len(req.photos), agg.items, m3,
                                            van.van_description,
                                            calculate_movers(van.van_count, m3),
                                            info.distance_miles, info.duration_text,
                                            rule.job_hours, wk) :
                        q = [estimate |-> h.price,
                             description |-> description,
                             items |-> agg.items,
                             totalVolumeM3 |-> m3,
                             totalAreaM2 |-> m2,
                             distance_miles |-> info.distance_miles,
                             duration_text |-> info.duration_text,
                             van_count |-> van.van_count,
                             van_description |-> van.van_description,
                             recommended_movers |-> calculate_movers(van.van_count, m3),
                             is_weekend |-> wk,
                             pricing_method |-> h.method]

\* analyze_quote raises for req when it runs alone
RaisesAlone(req) ==
    LET results == [i \in 1..Len(req.photos) |->
                       analyze_room_with_claude(vision_client, req.photos[i])]
    IN  \E m3 \in cubic_metres(aggregate_items_and_volume(results).total_volume_ft3) :
           van_count_raises(m3)

\* C21: whatever the interleaving of the requests' steps, a request that
\* returns returns a Quote it would get when run alone, a request that ends
\* with an exception would raise when run alone, and the model loaded at
\* startup stays one of the loaded artifacts.
C21_NoInterference ==
    pc = "serving" =>
        /\ model \in ModelArtifacts
        /\ \A r \in 1..MaxRequests :
              /\ calls[r].pc = "quote_returned" => QuoteAlone(calls[r].quote, calls[r].req)
              /\ calls[r].pc = "quote_raised" => RaisesAlone(calls[r].req)

\* request 1 has returned its Quote while request 2, a different request,
\* was under way and is about to call the model
C21_Witness ==
    /\ pc = "serving"
    /\ ~model.raises
    /\ calls[1].pc = "quote_returned"
    /\ calls[2].pc = "q_predict"
    /\ calls[1].req # calls[2].req
    /\ Len(calls[1].req.photos) = 2
    /\ calls[1].quote.pricing_method \in {"model", "hybrid"}
    /\ QuoteAlone(calls[1].quote, calls[1].req)

(***************************************************************************)
(* Claims about estimate_job_hours                                         *)
(***************************************************************************)
\* L = max(volume_m3 / 15, 1.0) and D = max(distance_miles / 30, 0.5), in
\* 1/HourDen hour, written by cases on the inputs
LoadingHours(volume) == IF volume >= 15 * 100 THEN (HourDen \div 1500) * volume ELSE HourDen

DrivingHours(distance) ==
    IF distance >= 15 * 100 THEN (HourDen \div 3000) * distance ELSE HourDen \div 2

\* C22: for every non-negative volume and distance estimate_job_hours is
\* max(L + D + 0.8 * L, 2.0) with L = max(volume_m3 / 15, 1.0) and
\* D = max(distance_miles / 30, 0.5); the job_hours of the rule price is
\* this value to one decimal.
C22_JobHours ==
    LET L == LoadingHours(total_volume_m3)
        D == DrivingHours(distance_miles)
        hours == estimate_job_hours(total_volume_m3, distance_miles)
    IN  pc \in {"rule", "rule_done"} =>
           /\ 10 * hours = Max(10 * L + 10 * D + 8 * L, 10 * 2 * HourDen)
           /\ pc = "rule_done" => IsNearest(rule_price_info.job_hours, hours, HourDen \div 10)

\* 15.54 m3 over 30.02 miles: L = 1.036, D = 1.0007, 2.8655 hours in all
C22_Witness ==
    /\ pc = "rule_done"
    /\ total_volume_m3 = 1554
    /\ distance_miles = 3002
    /\ estimate_job_hours(total_volume_m3, distance_miles) = 36 * 1554 + 10 * 3002
    /\ rule_price_info.job_hours = 29

(***************************************************************************)
(* Claims about the parser: name and quantity                              *)
(***************************************************************************)
\* s without the white space at its two ends
Trimmed(s) ==
    CHOOSE t \in {SubSeq(s, a, b) : a \in 1..(Len(s) + 1), b \in 0..Len(s)} :
        \E a \in 1..(Len(s) + 1), b \in 0..Len(s) :
            /\ t = SubSeq(s, a, b)
            /\ \A i \in 1..(a - 1) : s[i] \in WhiteSpace
            /\ \A i \in (b + 1)..Len(s) : s[i] \in WhiteSpace
            /\ (a <= b => s[a] \notin WhiteSpace /\ s[b] \notin WhiteSpace)
            /\ a <= b + 1

\* the positions of c in s
Positions(s, c) == {i \in 1..Len(s) : s[i] = c}

LastPosition(s, c) == CHOOSE i \in Positions(s, c) : \A j \in Positions(s, c) : j <= i

\* the bullet line without its '-' and the white space around
BulletBody(raw) == Trimmed(Tail(Trimmed(raw)))

\* what the claim gives for a bullet body: the name and the quantity
ClaimedName(body) ==
    IF Positions(body, "(") # {} /\ Positions(body, ")") # {}
    THEN Trimmed(SubSeq(body, 1, LastPosition(body, "(") - 1))
    ELSE body

ClaimedQuantity(body) ==
    IF Positions(body, "(") # {} /\ Positions(body, ")") # {}
    THEN LET between == SubSeq(body, LastPosition(body, "(") + 1,
                               LastPosition(body, ")") - 1)
         IN  IF LastPosition(body, ")") > LastPosition(body, "(") /\ ParseInt(between).ok
             THEN ParseInt(between).value
             ELSE 1
    ELSE 1

SofaFourThree ==
    <<"-", " ", "s", "o", "f", "a", " ", "(", "4", ")", " ", "(", "3", ")">>

KayakReversed == <<"-", " ", "k", "a", "y", "a", "k", " ", ")", "2", "(">>

\* C23: the item of a bullet line has as its name the trimmed text before
\* the last '(' and as its quantity the integer between the last '(' and the
\* last ')' when the line holds both; the quantity is 1 when that text is
\* not an integer or the last ')' comes before the last '('; a line without
\* a parenthesised quantity is the name, with quantity 1.  The parser
\* returns for every response.
C23_NameAndQuantity ==
    pc = "parse_done" =>
        /\ Len(result.items) = Len(BulletLines(response_text))
        /\ \A k \in 1..Len(result.items) :
              LET body == BulletBody(BulletLines(response_text)[k])
              IN  /\ result.items[k].label = ClaimedName(body)
                  /\ result.items[k].quantity = ClaimedQuantity(body)

\* "- sofa (4) (3)" gives the name "sofa (4)" and the quantity 3, and
\* "- kayak )2(" the name "kayak )2" and the quantity 1
C23_Witness ==
    /\ pc = "parse_done"
    /\ response_text = JoinLines(<<SofaFourThree, KayakReversed>>)
    /\ Len(result.items) = 2
    /\ result.items[1].label = <<"s", "o", "f", "a", " ", "(", "4", ")">>
    /\ result.items[1].quantity = 3
    /\ result.items[2].label = <<"k", "a", "y", "a", "k", " ", ")", "2">>
    /\ result.items[2].quantity = 1

(***************************************************************************)
(* Claims about the parser: noise                                          *)
(***************************************************************************)
\* the line, white space before it aside, starts with "- "
HasBulletPrefix(raw) ==
    \E i \in 1..(Len(raw) - 1) :
        /\ raw[i] = "-"
        /\ raw[i + 1] = " "
        /\ \A j \in 1..(i - 1) : raw[j] \in WhiteSpace

PrefixedLines(text) == SelectSeq(Split(text, "\n"), HasBulletPrefix)

\* C24 as claimed: only the lines prefixed by "- " yield an item, every
\* other line is skipped, and a response without such a line gives no items
\* and the total 0.
C24_Original ==
    pc = "parse_done" =>
        /\ Len(result.items) = Len(PrefixedLines(response_text))
        /\ (PrefixedLines(response_text) = <<>> =>
               result = [items |-> <<>>, total_volume_ft3 |-> 0])

(***************************************************************************)
(* Claims about the aggregator: the total and the order                    *)
(***************************************************************************)
\* the sum of the total_volume_ft3 fields of the per-photo results
RECURSIVE FieldSum(_)
FieldSum(results) ==
    IF results = <<>> THEN 0 ELSE results[Len(results)].total_volume_ft3
                                  + FieldSum(SubSeq(results, 1, Len(results) - 1))

\* the sum of estimated_volume_ft3 over aggregated items
RECURSIVE EstimatedSum(_)
EstimatedSum(its) ==
    IF its = <<>> THEN 0 ELSE its[1].estimated_volume_ft3 + EstimatedSum(Tail(its))

\* a per-photo result as the parser returns it: the total is that of the items
FromParser(r) == r.total_volume_ft3 = SumVolumes(r.items)

\* C25 as claimed: the returned total is the sum of the per-photo
\* total_volume_ft3 fields, and for per-photo results that the parser returns
\* it is the sum of estimated_volume_ft3 over the returned items, the
\* fallback case included.
C25_Original ==
    pc = "aggregate_done" =>
        /\ quote_volume_ft3 = FieldSum(all_results)
        /\ ((\A i \in 1..Len(all_results) : FromParser(all_results[i])) =>
               quote_volume_ft3 = EstimatedSum(quote_items))

\* C25 amended: when an item was detected the returned total is the sum of
\* the per-photo total_volume_ft3 fields, whatever the items' volumes are;
\* when none was detected it is 30.0, whatever the fields are; and when
\* every per-photo result is one the parser returns, the returned total is
\* the sum of estimated_volume_ft3 over the returned items, the fallback
\* case (one item of 30.0, total 30.0) included.
C25_TotalCarried ==
    pc = "aggregate_done" =>
        /\ (InputLabels # {} => quote_volume_ft3 = FieldSum(all_results))
        /\ (InputLabels = {} => quote_volume_ft3 = FALLBACK_TOTAL_VOLUME_FT3)
        /\ ((\A i \in 1..Len(all_results) : FromParser(all_results[i])) =>
               quote_volume_ft3 = EstimatedSum(quote_items))

\* two photos from the parser, sofa and bed in the first and sofa in the second
C25_Witness ==
    /\ pc = "aggregate_done"
    /\ Len(all_results) = 2
    /\ FromParser(all_results[1])
    /\ FromParser(all_results[2])
    /\ Len(all_results[1].items) = 2
    /\ InputLabels = {<<"s", "o", "f", "a">>, <<"b", "e", "d">>}
    /\ Len(quote_items) = 2
    /\ quote_volume_ft3 = 17000
    /\ EstimatedSum(quote_items) = 17000

\* the position in its of the first item with label l
FirstOccurrence(its, l) ==
    CHOOSE i \in 1..Len(its) : its[i].label = l /\ \A j \in 1..(i - 1) : its[j].label # l

\* C26: the aggregated items are in the order in which their labels first
\* occur in the per-photo results, photos taken in order and the items of a
\* photo in line order.
C26_FirstSeenOrder ==
    (pc = "aggregate_done" /\ InputLabels # {}) =>
        \A i, j \in 1..Len(quote_items) :
            i < j => FirstOccurrence(InputItems(all_results), quote_items[i].name)
                       < FirstOccurrence(InputItems(all_results), quote_items[j].name)

\* sofa then bed in the first photo, sofa again in the second: sofa stays first
C26_Witness ==
    /\ pc = "aggregate_done"
    /\ Len(all_results) = 2
    /\ Len(all_results[1].items) = 2
    /\ all_results[1].items[1].label = <<"s", "o", "f", "a">>
    /\ all_results[1].items[2].label = <<"b", "e", "d">>
    /\ Len(all_results[2].items) = 1
    /\ all_results[2].items[1].label = <<"s", "o", "f", "a">>
    /\ Len(quote_items) = 2
    /\ quote_items[1].name = <<"s", "o", "f", "a">>
    /\ quote_items[1].quantity = 2
    /\ quote_items[2].name = <<"b", "e", "d">>

(***************************************************************************)
(* Claims about rounding                                                   *)
(***************************************************************************)
\* round(meters / 1000.0 * 0.621371, 2) in hundredths of a mile: the integers
\* nearest to meters * 621371 / 10^7, the product taken in two halves
MilesHundredths(meters) ==
    LET xh == meters \div 10000
        xl == meters % 10000
        mid == xh * 1371 + xl * 62
        low == xl * 1371
        carry == mid + (low \div 10000)
        whole == xh * 620 + (carry \div 1000)
        frac == (carry % 1000) * 10000 + (low % 10000)
    IN  IF 2 * frac < 10000000 THEN {whole}
        ELSE IF 2 * frac > 10000000 THEN {whole + 1}
        ELSE {whole, whole + 1}

\* C27 as claimed: every derived field is its exact value rounded to two
\* decimal places; here for the volume, the area, job_hours, and the
\* distance in km and the distance_miles of the Quote for a route found.
C27_Original ==
    pc = "quote_returned" =>
        /\ IsNearest(quote.totalVolumeM3, quote_volume_ft3 * 8849, 312500)
        /\ IsNearest(quote.totalAreaM2, quote.totalVolumeM3 * 13, 10)
        /\ IsNearest(10 * rule_price_info.job_hours,
                     estimate_job_hours(total_volume_m3, distance_miles), HourDen \div 100)
        /\ (distance_info.source = "google_maps" =>
               /\ IsNearest(10 * distance_info.distance_km, maps_reply.meters, 10)
               /\ quote.distance_miles \in MilesHundredths(maps_reply.meters))

(***************************************************************************)
(* Claims about the external calls of a request                            *)
(***************************************************************************)
\* the positions in external_calls of the requests to service s for photo i
CallsOf(s, i) ==
    {k \in 1..Len(external_calls) :
        external_calls[k].service = s /\ external_calls[k].photo = i}

\* C28 as claimed: the photos are processed one after another in input
\* order and each contributes one entry to the result list, which is as long
\* as the list of photos once the loop is over; every photo processed has
\* triggered exactly one vision call; the distance service is called at most
\* once; and no request is sent a second time.
C28_Original ==
    /\ Len(all_results) <= Len(photos)
    /\ (PhotosDone => Len(all_results) = Len(photos))
    /\ \A i \in 1..Len(all_results) : Cardinality(CallsOf("vision", i)) = 1
    /\ Cardinality(CallsOf("maps", 0)) <= 1
    /\ \A i \in 1..Len(photos) :
          /\ Cardinality(CallsOf("download", i)) <= 1
          /\ Cardinality(CallsOf("vision", i)) <= 1
    /\ \A j, k \in 1..Len(external_calls) :
          j < k => external_calls[j].photo <= external_calls[k].photo

(***************************************************************************)
(* Claims about the two readings of the clock                              *)
(***************************************************************************)
\* C29 as claimed: the is_weekend of the Quote is true exactly when the
\* day_of_week given to the price model is 6 or 7.
C29_Original ==
    pc = "quote_returned" => (quote.is_weekend <=> features[1][Column("day_of_week")] \in {6, 7})

(***************************************************************************)
(* Claims about the capacity of the van plan                               *)
(***************************************************************************)
\* the capacity of one van of the type, in hundredths of a m3
VanCapacity(type) ==
    IF type = "small" THEN SWB_VAN_CAPACITY_M3
    ELSE IF type = "medium" THEN LWB_VAN_CAPACITY_M3
    ELSE LUTON_VAN_CAPACITY_M3

\* C30: for every volume >= 0 the plan of calculate_van_count carries the
\* load: van_count times the capacity of the van type is at least the
\* volume, van_count is at least 1, and capacity_used_pct is an integer
\* from 0 to 100.
C30_PlanCarriesLoad ==
    (van_info # NoVan /\ total_volume_m3 >= 0) =>
        /\ van_info.van_count >= 1
        /\ van_info.van_type \in {"small", "medium", "large"}
        /\ van_info.van_count * VanCapacity(van_info.van_type) >= total_volume_m3
        /\ van_info.capacity_used_pct \in 0..100

\* 70.01 m3: three Luton vans, 105 m3, used to 67 percent
C30_Witness ==
    /\ pc = "van_done"
    /\ total_volume_m3 = 2 * LUTON_VAN_CAPACITY_M3 + 1
    /\ van_info.van_count = 3
    /\ van_info.van_type = "large"
    /\ van_info.capacity_used_pct = 67

=============================================================================
